---- MODULE Spec2Model ----
(***************************************************************************)
(* A model of github.com/xdg-go/strum: a Decoder reads line-oriented text, *)
(* tokenizes each line and converts the tokens into Go values selected by  *)
(* the destination's type (strum.go, types.go).                            *)
(*                                                                         *)
(* Go strings are tuples of one-character strings.  A Go type is named by  *)
(* its reflect.Type.String(); Kind, Elem, NumField and Field give what     *)
(* package reflect gives for it.  Values: bool -> BOOLEAN, string -> tuple *)
(* of characters, integers and floats -> Int, pointer -> <<>> (nil) or     *)
(* <<pointee>>, slice -> [nil, elems], struct -> tuple of field values.    *)
(***************************************************************************)
EXTENDS Integers, Sequences, FiniteSets, TLC

VARIABLES
    lines,      \* the lines the input source holds (bufio.Scanner over r)
    srcErr,     \* TRUE: after its lines the source fails; FALSE: it ends (EOF)
    pos,        \* the cursor: number of lines already consumed
    t,          \* Decoder.t, the active Tokenizer
    dp,         \* Decoder.dp, the active DateParser
    destType,   \* the type of the caller's variable
    dest,       \* the caller's variable
    last        \* the last call on the decoder and what it returned

vars == <<lines, srcErr, pos, t, dp, destType, dest, last>>

----------------------------------------------------------------------------
(* Bounds of the model. *)

\* The input source yields at most MaxLines results before it ends: lines, and
\* possibly a read failure after them.
MaxLines == 2

\* Unmarshal is called only when the slice would hold at most MaxElems elements
\* once the data were appended.
MaxElems == 2

----------------------------------------------------------------------------
(* Text. *)

s_empty == <<>>
s_true  == <<"t", "r", "u", "e">>
s_7     == <<"7">>
s_7_8_x == <<"7", " ", "8", " ", "x">>

\* Tokens of the scalar types.
s_True    == <<"T", "r", "u", "e">>
s_TRUE    == <<"T", "R", "U", "E">>
s_tRuE    == <<"t", "R", "u", "E">>
s_false   == <<"f", "a", "l", "s", "e">>
s_FALSE   == <<"F", "A", "L", "S", "E">>
s_1       == <<"1">>
s_0       == <<"0">>
s_t       == <<"t">>
s_yes     == <<"y", "e", "s">>
s_m1      == <<"-", "1">>
s_p5      == <<"+", "5">>
s_127     == <<"1", "2", "7">>
s_128     == <<"1", "2", "8">>
s_m128    == <<"-", "1", "2", "8">>
s_m129    == <<"-", "1", "2", "9">>
s_255     == <<"2", "5", "5">>
s_256     == <<"2", "5", "6">>
s_32767   == <<"3", "2", "7", "6", "7">>
s_32768   == <<"3", "2", "7", "6", "8">>
s_m32768  == <<"-", "3", "2", "7", "6", "8">>
s_m32769  == <<"-", "3", "2", "7", "6", "9">>
s_65535   == <<"6", "5", "5", "3", "5">>
s_65536   == <<"6", "5", "5", "3", "6">>
s_0x7f    == <<"0", "x", "7", "f">>
s_0x80    == <<"0", "x", "8", "0">>
s_m0x80   == <<"-", "0", "x", "8", "0">>
s_m0x81   == <<"-", "0", "x", "8", "1">>
s_017     == <<"0", "1", "7">>
s_0b11    == <<"0", "b", "1", "1">>
s_0o17    == <<"0", "o", "1", "7">>
s_m       == <<"-">>
s_7x      == <<"7", "x">>
s_256x    == <<"2", "5", "6", "x">>
s_65536x  == <<"6", "5", "5", "3", "6", "x">>
s_08      == <<"0", "8">>
s_0x      == <<"0", "x">>
s_1d5     == <<"1", ".", "5">>
s_NaN     == <<"N", "a", "N">>
s_pInf    == <<"+", "I", "n", "f">>
s_mInf    == <<"-", "I", "n", "f">>
s_Inf     == <<"I", "n", "f">>

\* The lines an input source may hold.
Lines == {s_empty, s_true, s_7, s_7_8_x}

RECURSIVE SeqsUpTo(_, _)
SeqsUpTo(S, n) ==
    IF n = 0 THEN {<<>>}
    ELSE LET shorter == SeqsUpTo(S, n - 1)
         IN  shorter \cup {Append(q, x) : q \in {r \in shorter : Len(r) = n - 1}, x \in S}

Inputs == SeqsUpTo(Lines, MaxLines)

DecDigits == {"0", "1", "2", "3", "4", "5", "6", "7", "8", "9"}

\* The value of a digit character in any base up to 16; 99 for any other character.
DigitVal(c) ==
    CASE c = "0" -> 0 [] c = "1" -> 1 [] c = "2" -> 2 [] c = "3" -> 3 [] c = "4" -> 4
      [] c = "5" -> 5 [] c = "6" -> 6 [] c = "7" -> 7 [] c = "8" -> 8 [] c = "9" -> 9
      [] c \in {"a", "A"} -> 10 [] c \in {"b", "B"} -> 11 [] c \in {"c", "C"} -> 12
      [] c \in {"d", "D"} -> 13 [] c \in {"e", "E"} -> 14 [] c \in {"f", "F"} -> 15
      [] OTHER -> 99

\* unicode.IsSpace for the characters of the model.
IsSpace(c) == c \in {" ", "\t"}

LowerChar(c) ==
    CASE c = "T" -> "t" [] c = "R" -> "r" [] c = "U" -> "u" [] c = "E" -> "e"
      [] c = "F" -> "f" [] c = "A" -> "a" [] c = "L" -> "l" [] c = "S" -> "s"
      [] c = "X" -> "x" [] c = "O" -> "o" [] c = "B" -> "b"
      [] c = "N" -> "n" [] c = "I" -> "i"
      [] OTHER -> c

\* strings.ToLower
ToLower(s) == [i \in 1..Len(s) |-> LowerChar(s[i])]

Drop(s, n) == SubSeq(s, n + 1, Len(s))
Take(s, n) == SubSeq(s, 1, n)

\* The decimal text of an integer, as fmt.Sprintf("%d", n) writes it.
DigitChar(k) == <<"0", "1", "2", "3", "4", "5", "6", "7", "8", "9">>[k + 1]

RECURSIVE DecimalDigits(_)
DecimalDigits(n) ==
    IF n < 10 THEN <<DigitChar(n)>>
    ELSE Append(DecimalDigits(n \div 10), DigitChar(n % 10))

Decimal(n) == IF n < 0 THEN <<"-">> \o DecimalDigits(0 - n) ELSE DecimalDigits(n)

\* The line feed and the carriage return.
LF == "\n"
CR == "\r"

\* bufio.ScanLines, the split function of the Scanner NewDecoder builds: the
\* lines of a text.  A line ends at a line feed or at the end of the text, a
\* carriage return at its end is dropped, and no line follows the last line
\* feed when no text follows it.
dropCR(s) == IF s # <<>> /\ s[Len(s)] = CR THEN Take(s, Len(s) - 1) ELSE s

RECURSIVE ScanLinesFrom(_, _, _)
ScanLinesFrom(text, cur, acc) ==
    IF text = <<>> THEN (IF cur = <<>> THEN acc ELSE Append(acc, dropCR(cur)))
    ELSE IF Head(text) = LF THEN ScanLinesFrom(Tail(text), <<>>, Append(acc, dropCR(cur)))
    ELSE ScanLinesFrom(Tail(text), Append(cur, Head(text)), acc)

ScanLines(text) == ScanLinesFrom(text, <<>>, <<>>)

----------------------------------------------------------------------------
(* Errors.  An error is a record whose field e is its message; a wrapped     *)
(* error (fmt.Errorf with %w) keeps the error it wraps in field cause.       *)

Nil == [e |-> "nil"]

\* io.EOF, compared by identity in decodeAll.
EOF == [e |-> "io.EOF"]

\* A failure of the underlying reader, as bufio.Scanner.Err reports it.
ReadErr == [e |-> "read error"]

decodingError(name, err) == [e |-> "error decoding to", name |-> name, cause |-> err]

WrapErr(prefix, err) == [e |-> "wrap", prefix |-> prefix, cause |-> err]

\* What strconv.NumError.Err says.
ErrSyntax == "invalid syntax"
ErrRange  == "value out of range"

NumError(fn, s, why) == [e |-> "strconv", fn |-> fn, s |-> s, why |-> why]

----------------------------------------------------------------------------
(* Types, as package reflect describes them. *)

ScalarTypes == {"bool", "string", "int8", "int16", "uint8", "uint16", "float64"}

StructTypes == {"pair", "partPrivate", "unsupported", "sxWithBoolHandle", "big.Rat", "time.Time"}

PtrTypes == {"*bool", "**bool", "*string", "*pair", "*time.Time", "*big.Rat", "*[]pair",
             "*complex128"}

SliceTypes == {"[]int8", "[]string", "[]bool", "[]pair", "[][]int8", "[]*bool", "[]complex128",
               "[]time.Time", "[]*big.Rat"}

Types == ScalarTypes \cup StructTypes \cup PtrTypes \cup SliceTypes
             \cup {"time.Duration", "complex128", "map[string]string"}

\* reflect.Type.Kind
Kind(T) ==
    CASE T = "bool" -> "Bool"
      [] T = "string" -> "String"
      [] T = "int8" -> "Int8"
      [] T = "int16" -> "Int16"
      [] T = "uint8" -> "Uint8"
      [] T = "uint16" -> "Uint16"
      [] T = "float64" -> "Float64"
      [] T = "time.Duration" -> "Int64"
      [] T = "complex128" -> "Complex128"
      [] T = "map[string]string" -> "Map"
      [] T \in StructTypes -> "Struct"
      [] T \in PtrTypes -> "Ptr"
      [] T \in SliceTypes -> "Slice"

\* reflect.Type.Elem of a pointer or slice type
Elem(T) ==
    CASE T = "*bool" -> "bool"
      [] T = "**bool" -> "*bool"
      [] T = "*string" -> "string"
      [] T = "*pair" -> "pair"
      [] T = "*time.Time" -> "time.Time"
      [] T = "*big.Rat" -> "big.Rat"
      [] T = "*[]pair" -> "[]pair"
      [] T = "*complex128" -> "complex128"
      [] T = "[]int8" -> "int8"
      [] T = "[]string" -> "string"
      [] T = "[]bool" -> "bool"
      [] T = "[]pair" -> "pair"
      [] T = "[][]int8" -> "[]int8"
      [] T = "[]*bool" -> "*bool"
      [] T = "[]time.Time" -> "time.Time"
      [] T = "[]*big.Rat" -> "*big.Rat"
      [] T = "[]complex128" -> "complex128"

\* reflect.Type.Bits
Bits(T) ==
    CASE T \in {"int8", "uint8"} -> 8
      [] T \in {"int16", "uint16"} -> 16
      [] T = "float64" -> 64
      [] T = "time.Duration" -> 64

\* The struct types' fields in declared order: reflect.StructField's Name, PkgPath
\* (empty for an exported field) and Type.
StructFields(T) ==
    CASE T = "pair" ->
            << [Name |-> "Name", PkgPath |-> "", Type |-> "string"],
               [Name |-> "Age", PkgPath |-> "", Type |-> "int8"] >>
      [] T = "partPrivate" ->
            << [Name |-> "First", PkgPath |-> "", Type |-> "string"],
               [Name |-> "second", PkgPath |-> "strum_test", Type |-> "string"] >>
      [] T = "unsupported" ->
            << [Name |-> "C", PkgPath |-> "", Type |-> "complex128"] >>
      [] T = "sxWithBoolHandle" ->
            << [Name |-> "B", PkgPath |-> "", Type |-> "**bool"] >>
      [] T = "big.Rat" ->
            << [Name |-> "a", PkgPath |-> "math/big", Type |-> "int8"],
               [Name |-> "b", PkgPath |-> "math/big", Type |-> "int8"] >>
      [] T = "time.Time" ->
            << [Name |-> "wall", PkgPath |-> "time", Type |-> "uint8"] >>

NumField(T) == Len(StructFields(T))
Field(T, i) == StructFields(T)[i]

durationType == "time.Duration"
timeType     == "time.Time"
timePtrType  == "*time.Time"

\* The types whose method set holds UnmarshalText (encoding.TextUnmarshaler).
\* time.Time and big.Rat declare it on the pointer receiver.
TextUnmarshalers == {"*big.Rat", "*time.Time"}

isTextUnmarshaler(T) == T \in TextUnmarshalers

\* The zero value of a type (reflect.New(T).Elem()).
RECURSIVE Zero(_)
Zero(T) ==
    CASE Kind(T) = "Bool" -> FALSE
      [] Kind(T) = "String" -> <<>>
      [] Kind(T) \in {"Int8", "Int16", "Uint8", "Uint16", "Int64", "Complex128"} -> 0
      [] Kind(T) = "Float64" -> [f |-> "finite", n |-> 0]
      [] Kind(T) = "Ptr" -> <<>>
      [] Kind(T) = "Slice" -> [nil |-> TRUE, elems |-> <<>>]
      [] Kind(T) = "Map" -> [nil |-> TRUE, elems |-> <<>>]
      [] Kind(T) = "Struct" -> [i \in 1..NumField(T) |-> Zero(Field(T, i).Type)]

\* reflect.MakeSlice(T, 0, 1): an allocated slice of length 0.
MakeSlice == [nil |-> FALSE, elems |-> <<>>]

\* reflect.Append
AppendSlice(slice, v) == [nil |-> FALSE, elems |-> Append(slice.elems, v)]

IsNilPtr(v) == v = <<>>

\* maybeInstantiatePtr: a nil pointer is set to point to a new zero value.
maybeInstantiatePtr(T, v) ==
    IF Kind(T) = "Ptr" /\ IsNilPtr(v) THEN << Zero(Elem(T)) >> ELSE v

----------------------------------------------------------------------------
(* The parsers of the Go library the decoder calls.  Each returns            *)
(* [err, v]: err = Nil and the value, or the error.                          *)

\* The digit loop of strconv.ParseUint: the first character that is no digit of
\* the base is a syntax error, the first digit that takes the value above maxVal
\* a range error; whichever comes first ends the loop.
RECURSIVE ParseDigits(_, _, _, _, _)
ParseDigits(s, i, base, maxVal, n) ==
    IF i > Len(s) THEN [why |-> "", v |-> n]
    ELSE LET d == DigitVal(s[i])
         IN  IF d >= base THEN [why |-> ErrSyntax, v |-> 0]
             ELSE IF n * base + d > maxVal THEN [why |-> ErrRange, v |-> maxVal]
             ELSE ParseDigits(s, i + 1, base, maxVal, n * base + d)

\* 2^n
RECURSIVE Pow2(_)
Pow2(n) == IF n = 0 THEN 1 ELSE 2 * Pow2(n - 1)

\* strconv.ParseUint(s, 0, bitSize), for text without digit separators:
\* [why, v], why = "" on success.
ParseUintCore(s, bitSize) ==
    IF s = <<>> THEN [why |-> ErrSyntax, v |-> 0]
    ELSE LET prefixed == s[1] = "0" /\ Len(s) >= 3 /\ LowerChar(s[2]) \in {"b", "o", "x"}
             base == IF s[1] # "0" THEN 10
                     ELSE IF ~prefixed THEN 8
                     ELSE IF LowerChar(s[2]) = "b" THEN 2
                     ELSE IF LowerChar(s[2]) = "o" THEN 8
                     ELSE 16
             digits == IF s[1] # "0" THEN s ELSE IF prefixed THEN Drop(s, 2) ELSE Drop(s, 1)
         IN  ParseDigits(digits, 1, base, Pow2(bitSize) - 1, 0)

\* A ParseUint that would read a minus sign and wrap the negative value.
ParseUint_wrapsNegative(s, bitSize) ==
    LET neg == s # <<>> /\ s[1] = "-"
        r == ParseUintCore(IF neg THEN Drop(s, 1) ELSE s, bitSize)
    IN  IF r.why # "" THEN [err |-> NumError("ParseUint", s, r.why), v |-> r.v]
        ELSE [err |-> Nil, v |-> IF neg THEN (Pow2(bitSize) - r.v) % Pow2(bitSize) ELSE r.v]

\* strconv.ParseUint(s, 0, bitSize)
ParseUint(s, bitSize) ==
    LET r == ParseUintCore(s, bitSize)
    IN  IF r.why = "" THEN [err |-> Nil, v |-> r.v]
        ELSE [err |-> NumError("ParseUint", s, r.why), v |-> r.v]

\* A ParseInt that would keep the low bitSize bits of a value out of range.
ParseInt_wraps(s, bitSize) ==
    IF s = <<>> THEN [err |-> NumError("ParseInt", s, ErrSyntax), v |-> 0]
    ELSE LET neg == s[1] = "-"
             body == IF s[1] \in {"+", "-"} THEN Drop(s, 1) ELSE s
             r == ParseUintCore(body, bitSize + 3)
             cutoff == Pow2(bitSize - 1)
             low == (IF neg THEN 0 - r.v ELSE r.v) % Pow2(bitSize)
         IN  IF r.why # "" THEN [err |-> NumError("ParseInt", s, r.why), v |-> 0]
             ELSE [err |-> Nil, v |-> IF low >= cutoff THEN low - Pow2(bitSize) ELSE low]

\* strconv.ParseInt(s, 0, bitSize)
ParseInt(s, bitSize) ==
    IF s = <<>> THEN [err |-> NumError("ParseInt", s, ErrSyntax), v |-> 0]
    ELSE LET neg == s[1] = "-"
             body == IF s[1] \in {"+", "-"} THEN Drop(s, 1) ELSE s
             r == ParseUintCore(body, bitSize)
             cutoff == Pow2(bitSize - 1)
         IN  IF r.why = ErrSyntax THEN [err |-> NumError("ParseInt", s, ErrSyntax), v |-> 0]
             ELSE IF ~neg /\ r.v >= cutoff
                  THEN [err |-> NumError("ParseInt", s, ErrRange), v |-> cutoff - 1]
             ELSE IF neg /\ r.v > cutoff
                  THEN [err |-> NumError("ParseInt", s, ErrRange), v |-> 0 - cutoff]
             ELSE [err |-> Nil, v |-> IF neg THEN 0 - r.v ELSE r.v]

\* A decimal integer with an optional sign: [ok, v].
ParseDecimal(s) ==
    LET body == IF s # <<>> /\ s[1] \in {"+", "-"} THEN Drop(s, 1) ELSE s
        r == ParseDigits(body, 1, 10, 1000000, 0)
    IN  IF body = <<>> \/ r.why # "" THEN [ok |-> FALSE, v |-> 0]
        ELSE [ok |-> TRUE, v |-> IF s[1] = "-" THEN 0 - r.v ELSE r.v]

\* The float64 values of the model: the numbers n of ParseDecimal, the
\* infinities and NaN.
Finite(n) == [f |-> "finite", n |-> n]
NaN == [f |-> "NaN"]
Inf(sign) == [f |-> IF sign < 0 THEN "-Inf" ELSE "+Inf"]

\* A ParseFloat that would read an infinity only without the plus sign.
ParseFloat_unsignedInf(s, bitSize) ==
    IF ToLower(s) = <<"n", "a", "n">> THEN [err |-> Nil, v |-> NaN]
    ELSE IF ToLower(s) = <<"i", "n", "f">> THEN [err |-> Nil, v |-> Inf(1)]
    ELSE IF ToLower(s) = <<"-", "i", "n", "f">> THEN [err |-> Nil, v |-> Inf(-1)]
    ELSE IF ParseDecimal(s).ok THEN [err |-> Nil, v |-> Finite(ParseDecimal(s).v)]
    ELSE [err |-> NumError("ParseFloat", s, ErrSyntax), v |-> Finite(0)]

\* strconv.ParseFloat(s, 64) on the text the model decodes into a float64: "nan"
\* and "inf" are read without regard to case, "inf" with an optional sign; a
\* decimal integer with an optional sign is that number; the other texts of the
\* model are syntax errors.
ParseFloat(s, bitSize) ==
    IF ToLower(s) = <<"n", "a", "n">> THEN [err |-> Nil, v |-> NaN]
    ELSE IF ToLower(s) \in {<<"i", "n", "f">>, <<"+", "i", "n", "f">>}
    THEN [err |-> Nil, v |-> Inf(1)]
    ELSE IF ToLower(s) = <<"-", "i", "n", "f">> THEN [err |-> Nil, v |-> Inf(-1)]
    ELSE IF ParseDecimal(s).ok THEN [err |-> Nil, v |-> Finite(ParseDecimal(s).v)]
    ELSE [err |-> NumError("ParseFloat", s, ErrSyntax), v |-> Finite(0)]

\* time.ParseDuration on the text the model's lines hold.  A duration is "0" or
\* has a unit; the characters of Lines spell no unit, so every other text fails.
ParseDuration(s) ==
    LET body == IF s # <<>> /\ s[1] \in {"+", "-"} THEN Drop(s, 1) ELSE s
    IN  IF body = <<"0">> THEN [err |-> Nil, v |-> 0]
        ELSE [err |-> [e |-> "time: invalid duration", s |-> s], v |-> 0]

\* (*big.Rat).UnmarshalText on the text the model's lines hold: a decimal integer
\* n with an optional sign sets the value to n/1, anything else fails.
UnmarshalText(v, s) ==
    LET r == ParseDecimal(s)
    IN  IF r.ok THEN [err |-> Nil, v |-> <<r.v, 1>>]
        ELSE [err |-> [e |-> "math/big: cannot unmarshal into a *big.Rat", s |-> s], v |-> v]

\* The date parsers a Decoder may hold: the default of NewDecoder
\* (dateparse.ParseAny), the custom parser of TestDateParser, which returns
\* the same time for every text, and a caller's parser that fails on every text
\* with io.EOF as its error.
DateParsers == {"dateparse.ParseAny", "constWant", "failEOF"}

\* The time.Time the custom parser returns.
want == <<1>>

\* d.dp(s).  No token of Lines is text dateparse.ParseAny accepts.
DateParse(parser, s) ==
    IF parser = "constWant" THEN [err |-> Nil, v |-> want]
    ELSE IF parser = "failEOF" THEN [err |-> EOF, v |-> Zero(timeType)]
    ELSE [err |-> [e |-> "dateparse: could not find format", s |-> s], v |-> Zero(timeType)]

----------------------------------------------------------------------------
(* Tokenizers. *)

\* strings.Fields: the maximal runs of non-space characters, in order.
RECURSIVE FieldsFrom(_, _, _)
FieldsFrom(s, cur, acc) ==
    IF s = <<>> THEN (IF cur = <<>> THEN acc ELSE Append(acc, cur))
    ELSE IF IsSpace(Head(s))
         THEN FieldsFrom(Tail(s), <<>>, IF cur = <<>> THEN acc ELSE Append(acc, cur))
         ELSE FieldsFrom(Tail(s), Append(cur, Head(s)), acc)

Fields(s) == FieldsFrom(s, <<>>, <<>>)

HasPrefix(s, p) == Len(s) >= Len(p) /\ Take(s, Len(p)) = p

\* strings.Split for a non-empty separator: cut at each occurrence from the left.
RECURSIVE SplitFrom(_, _, _, _)
SplitFrom(s, sep, cur, acc) ==
    IF s = <<>> THEN Append(acc, cur)
    ELSE IF HasPrefix(s, sep)
         THEN SplitFrom(Drop(s, Len(sep)), sep, <<>>, Append(acc, cur))
         ELSE SplitFrom(Tail(s), sep, Append(cur, Head(s)), acc)

\* strings.Split(s, sep); an empty separator splits after each character.
Split(s, sep) ==
    IF sep = <<>> THEN [i \in 1..Len(s) |-> <<s[i]>>]
    ELSE SplitFrom(s, sep, <<>>, <<>>)

\* The separators WithSplitOn is called with.
Seps == {<<"x">>, <<"x", "x">>}

\* The patterns WithTokenRegexp is called with.
re_two  == "^([0-9]+) ([0-9]+)"
re_zero == "^.*$"
re_digits == "^[0-9]+$"
Regexps == {re_two, re_zero, re_digits}

\* regexp.Regexp.NumSubexp: the number of capture groups.
NumSubexp(re) == IF re = re_two THEN 2 ELSE 0

\* The longest prefix of s made of decimal digits.
RECURSIVE DigitsPrefix(_)
DigitsPrefix(s) ==
    IF s = <<>> \/ Head(s) \notin DecDigits THEN <<>>
    ELSE <<Head(s)>> \o DigitsPrefix(Tail(s))

\* regexp.Regexp.FindStringSubmatch(s): [nil, xs]; when the pattern matches, xs is
\* the matched text followed by the text of each capture group.
FindStringSubmatch(re, s) ==
    IF re = re_two
    THEN LET a == DigitsPrefix(s)
             rest == Drop(s, Len(a))
             b == IF rest # <<>> /\ Head(rest) = " " THEN DigitsPrefix(Tail(rest)) ELSE <<>>
         IN  IF a = <<>> \/ b = <<>> THEN [nil |-> TRUE, xs |-> <<>>]
             ELSE [nil |-> FALSE, xs |-> << a \o <<" ">> \o b, a, b >>]
    ELSE IF re = re_digits
    THEN IF s = <<>> \/ DigitsPrefix(s) # s THEN [nil |-> TRUE, xs |-> <<>>]
         ELSE [nil |-> FALSE, xs |-> << s >>]
    ELSE [nil |-> FALSE, xs |-> << s >>]

\* The functions WithTokenizer is called with directly: a tokenizer of the caller
\* that fails on every line, with io.EOF as its error.
CustomTokenizers == {"failEOF"}

\* NewDecoder's tokenizer.
DefaultTokenizer == [kind |-> "Fields"]

Tokenizers ==
    {DefaultTokenizer}
        \cup {[kind |-> "SplitOn", sep |-> sep] : sep \in Seps}
        \cup {[kind |-> "Regexp", re |-> re] : re \in Regexps}
        \cup {[kind |-> "Custom", fn |-> fn] : fn \in CustomTokenizers}

\* A regexp tokenizer that would take a match without capture group for a line
\* of no token.
RegexpTokenizer_noGroupNoToken(re, s) ==
    LET m == FindStringSubmatch(re, s)
    IN  IF m.nil
        THEN [tokens |-> <<>>, err |-> [e |-> "regexp failed to match line", s |-> s]]
        ELSE [tokens |-> Tail(m.xs), err |-> Nil]

\* A regexp tokenizer that would keep the full match as its first token.
RegexpTokenizer_fullMatch(re, s) ==
    LET m == FindStringSubmatch(re, s)
    IN  IF m.nil
        THEN [tokens |-> <<>>, err |-> [e |-> "regexp failed to match line", s |-> s]]
        ELSE IF Len(m.xs) = 1
        THEN [tokens |-> <<>>, err |-> [e |-> "regexp has no subexpressions"]]
        ELSE [tokens |-> m.xs, err |-> Nil]

\* The tokenizer WithTokenRegexp installs.
RegexpTokenizer(re, s) ==
    LET m == FindStringSubmatch(re, s)
    IN  IF m.nil
        THEN [tokens |-> <<>>, err |-> [e |-> "regexp failed to match line", s |-> s]]
        ELSE IF Len(m.xs) = 1
        THEN [tokens |-> <<>>, err |-> [e |-> "regexp has no subexpressions"]]
        ELSE [tokens |-> Tail(m.xs), err |-> Nil]

\* The tokenizer WithSplitOn installs.
\* A tokenizer of WithSplitOn that would drop the empty tokens.
SplitOnTokenizer_dropEmpty(sep, s) ==
    [tokens |-> SelectSeq(Split(s, sep), LAMBDA tok : tok # <<>>), err |-> Nil]

SplitOnTokenizer(sep, s) == [tokens |-> Split(s, sep), err |-> Nil]

\* d.t(s): the active tokenizer applied to a line, [tokens, err].
Tokenize(tk, s) ==
    CASE tk.kind = "Fields" -> [tokens |-> Fields(s), err |-> Nil]
      [] tk.kind = "SplitOn" -> SplitOnTokenizer(tk.sep, s)
      [] tk.kind = "Regexp" -> RegexpTokenizer(tk.re, s)
      [] tk.kind = "Custom" ->
            [tokens |-> <<>>,
             err |-> IF tk.fn = "failEOF" THEN EOF ELSE [e |-> "custom tokenizer failed"]]

----------------------------------------------------------------------------
(* The Decoder.  A decoder d is [lines, srcErr, pos, t, dp]: the lines of its  *)
(* source and whether the source fails (rather than ends) after them, the      *)
(* cursor, the tokenizer and the date parser.  Each operation returns the      *)
(* decoder it leaves behind along with its results.                            *)

\* NewDecoder(r)
NewDecoder(ls, fails) ==
    [lines |-> ls, srcErr |-> fails, pos |-> 0, t |-> DefaultTokenizer,
     dp |-> "dateparse.ParseAny"]

\* A readline that would wrap the end of input in an error of its own.
readline_wrapsEOF(d) ==
    IF d.pos < Len(d.lines)
    THEN [s |-> d.lines[d.pos + 1], err |-> Nil, d |-> [d EXCEPT !.pos = d.pos + 1]]
    ELSE [s |-> <<>>, err |-> IF d.srcErr THEN ReadErr ELSE WrapErr("readline", EOF), d |-> d]

\* (*Decoder).readline: [s, err, d].  Once Scan has returned false it returns
\* false again, with the same Err.
readline(d) ==
    IF d.pos < Len(d.lines)
    THEN [s |-> d.lines[d.pos + 1], err |-> Nil, d |-> [d EXCEPT !.pos = d.pos + 1]]
    ELSE [s |-> <<>>, err |-> IF d.srcErr THEN ReadErr ELSE EOF, d |-> d]

\* (*Decoder).Tokens: [tokens, err, d]
Tokens(d) ==
    LET r == readline(d)
    IN  IF r.err # Nil THEN [tokens |-> <<>>, err |-> r.err, d |-> r.d]
        ELSE LET tk == Tokenize(d.t, r.s)
             IN  [tokens |-> tk.tokens, err |-> tk.err, d |-> r.d]

----------------------------------------------------------------------------
(* types.go *)

\* isDecodableValue: whether decodeSlice accepts the type as its element type.
isDecodableValue(T) ==
    IF T = durationType THEN TRUE
    ELSE IF T \in {timeType, timePtrType} THEN TRUE
    ELSE IF isTextUnmarshaler(T) THEN TRUE
    ELSE Kind(T) \in {"Bool", "String", "Int8", "Int16", "Uint8", "Uint16", "Float64"}

\* A parsing case that would return the parser's error as it is.
Parsed_bare(name, v, r) ==
    IF r.err # Nil THEN [err |-> r.err, v |-> v]
    ELSE [err |-> Nil, v |-> r.v]

\* The end of a parsing case of decodeToValue: a parser's error is wrapped with
\* the destination's name and the destination v keeps its value; its result is
\* stored otherwise.
Parsed(name, v, r) ==
    IF r.err # Nil THEN [err |-> decodingError(name, r.err), v |-> v]
    ELSE [err |-> Nil, v |-> r.v]

\* A boolean case that would read the token as strconv.ParseBool does.
ParseBool_strconv(s) ==
    IF s \in {s_1, s_t, s_true, s_True, s_TRUE} THEN [err |-> Nil, v |-> TRUE]
    ELSE IF s \in {s_0, s_false, s_FALSE} THEN [err |-> Nil, v |-> FALSE]
    ELSE [err |-> [e |-> "error decoding as boolean", s |-> s], v |-> FALSE]

\* The boolean case of decodeToValue.
ParseBool(s) ==
    IF ToLower(s) = <<"t", "r", "u", "e">> THEN [err |-> Nil, v |-> TRUE]
    ELSE IF ToLower(s) = <<"f", "a", "l", "s", "e">> THEN [err |-> Nil, v |-> FALSE]
    ELSE [err |-> [e |-> "error decoding as boolean", s |-> s], v |-> FALSE]

\* The end of the TextUnmarshaler case of decodeToValue: the pointer, instantiated
\* if it was nil, points to what UnmarshalText left.
Unmarshaled(name, r) ==
    [err |-> IF r.err # Nil THEN decodingError(name, r.err) ELSE Nil, v |-> << r.v >>]

\* The end of a pointer case of decodeToValue: the pointer, instantiated if it
\* was nil, points to what the recursive call left.
Pointed(r) == [err |-> r.err, v |-> << r.v >>]

\* (*Decoder).decodeToValue(name, v, s), v of type T: [err, v], v the value the
\* destination holds when the call returns.
RECURSIVE decodeToValue(_, _, _, _, _)
decodeToValue(d, name, T, v, s) ==
    IF T = durationType THEN Parsed(name, v, ParseDuration(s))
    ELSE IF T = timeType THEN Parsed(name, v, DateParse(d.dp, s))
    ELSE IF T = timePtrType
    THEN Pointed(decodeToValue(d, name, Elem(T), maybeInstantiatePtr(T, v)[1], s))
    ELSE IF isTextUnmarshaler(T)
    THEN Unmarshaled(name, UnmarshalText(maybeInstantiatePtr(T, v)[1], s))
    ELSE IF Kind(T) = "Bool" THEN Parsed(name, v, ParseBool(s))
    ELSE IF Kind(T) = "String" THEN [err |-> Nil, v |-> s]
    ELSE IF Kind(T) \in {"Int8", "Int16"} THEN Parsed(name, v, ParseInt(s, Bits(T)))
    ELSE IF Kind(T) \in {"Uint8", "Uint16"} THEN Parsed(name, v, ParseUint(s, Bits(T)))
    ELSE IF Kind(T) = "Float64" THEN Parsed(name, v, ParseFloat(s, Bits(T)))
    ELSE IF Kind(T) = "Ptr"
    THEN Pointed(decodeToValue(d, name, Elem(T), maybeInstantiatePtr(T, v)[1], s))
    ELSE [err |-> decodingError(name, [e |-> "unsupported type", type |-> T]), v |-> v]

----------------------------------------------------------------------------
(* strum.go: decoding one line.  Each returns [err, v, d]: the error, the     *)
(* value the destination holds on return, and the decoder.                    *)

\* A result [err, v] of work on the tokens of a line, with the decoder d the
\* reading of the line left.
After(d, r) == [err |-> r.err, v |-> r.v, d |-> d]

\* The loop of decodeStruct over the tokens, from token i (1-based) on;
\* decodeStructField is its body once token i has been decoded into field i (r).
RECURSIVE decodeStructLoop(_, _, _, _, _)
RECURSIVE decodeStructField(_, _, _, _, _, _)
\* A loop of decodeStruct that would ignore the tokens beyond the last field.
decodeStructLoop_ignoreExtra(d, T, v, tokens, i) ==
    IF i > Len(tokens) \/ i > NumField(T) THEN [err |-> Nil, v |-> v]
    ELSE IF Field(T, i).PkgPath # ""
    THEN [err |-> [e |-> "cannot decode to unexported field", field |-> <<T, Field(T, i).Name>>],
          v |-> v]
    ELSE decodeStructField(d, T, v, tokens, i,
            decodeToValue(d, <<T, Field(T, i).Name>>, Field(T, i).Type, v[i], tokens[i]))

\* A loop of decodeStruct that would count the tokens before it fills a field.
decodeStructLoop_arityFirst(d, T, v, tokens, i) ==
    IF i > Len(tokens) THEN [err |-> Nil, v |-> v]
    ELSE IF Len(tokens) > NumField(T)
    THEN [err |-> [e |-> "too many tokens for struct", type |-> T], v |-> v]
    ELSE IF Field(T, i).PkgPath # ""
    THEN [err |-> [e |-> "cannot decode to unexported field", field |-> <<T, Field(T, i).Name>>],
          v |-> v]
    ELSE decodeStructField(d, T, v, tokens, i,
            decodeToValue(d, <<T, Field(T, i).Name>>, Field(T, i).Type, v[i], tokens[i]))

decodeStructLoop(d, T, v, tokens, i) ==
    IF i > Len(tokens) THEN [err |-> Nil, v |-> v]
    ELSE IF i > NumField(T)
    THEN [err |-> [e |-> "too many tokens for struct", type |-> T], v |-> v]
    ELSE IF Field(T, i).PkgPath # ""
    THEN [err |-> [e |-> "cannot decode to unexported field", field |-> <<T, Field(T, i).Name>>],
          v |-> v]
    ELSE decodeStructField(d, T, v, tokens, i,
            decodeToValue(d, <<T, Field(T, i).Name>>, Field(T, i).Type, v[i], tokens[i]))

decodeStructField(d, T, v, tokens, i, r) ==
    IF r.err # Nil THEN [err |-> r.err, v |-> [v EXCEPT ![i] = r.v]]
    ELSE decodeStructLoop(d, T, [v EXCEPT ![i] = r.v], tokens, i + 1)

\* A decodeStruct that would fill the struct without zeroing it first.
decodeStructTokens_noReset(T, v, tk) ==
    IF tk.err # Nil THEN [err |-> tk.err, v |-> v, d |-> tk.d]
    ELSE After(tk.d, decodeStructLoop(tk.d, T, v, tk.tokens, 1))

\* A decodeStruct that would look for an unexported field in the type before it
\* fills the struct.
decodeStructTokens_staticCheck(T, v, tk) ==
    IF tk.err # Nil THEN [err |-> tk.err, v |-> v, d |-> tk.d]
    ELSE IF \E i \in 1..NumField(T) : Field(T, i).PkgPath # ""
    THEN [err |-> [e |-> "cannot decode to unexported field",
                   field |-> <<T, Field(T, CHOOSE i \in 1..NumField(T) :
                                               Field(T, i).PkgPath # "").Name>>],
          v |-> Zero(T), d |-> tk.d]
    ELSE After(tk.d, decodeStructLoop(tk.d, T, Zero(T), tk.tokens, 1))

\* A decodeStruct that would zero the struct before it looks at the error of
\* Tokens.
decodeStructTokens_resetFirst(T, v, tk) ==
    IF tk.err # Nil THEN [err |-> tk.err, v |-> Zero(T), d |-> tk.d]
    ELSE After(tk.d, decodeStructLoop(tk.d, T, Zero(T), tk.tokens, 1))

\* decodeStruct once Tokens has returned tk: the struct is zeroed, then filled.
decodeStructTokens(T, v, tk) ==
    IF tk.err # Nil THEN [err |-> tk.err, v |-> v, d |-> tk.d]
    ELSE After(tk.d, decodeStructLoop(tk.d, T, Zero(T), tk.tokens, 1))

\* (*Decoder).decodeStruct
decodeStruct(d, T, v) == decodeStructTokens(T, v, Tokens(d))

\* The loop of decodeSlice over the tokens, from token i (1-based) on;
\* decodeSliceElem is its body once token i has been decoded into a new element (r).
RECURSIVE decodeSliceLoop(_, _, _, _, _)
RECURSIVE decodeSliceElem(_, _, _, _, _, _)
decodeSliceLoop(d, T, slice, tokens, i) ==
    IF i > Len(tokens) THEN [err |-> Nil, v |-> slice]
    ELSE decodeSliceElem(d, T, slice, tokens, i,
            decodeToValue(d, <<"element", i - 1>>, Elem(T), Zero(Elem(T)), tokens[i]))

decodeSliceElem(d, T, slice, tokens, i, r) ==
    IF r.err # Nil THEN [err |-> r.err, v |-> slice]
    ELSE decodeSliceLoop(d, T, AppendSlice(slice, r.v), tokens, i + 1)

\* A decodeSlice that would start from an empty slice on every line.
decodeSliceTokens_reset(T, slice, tk) ==
    IF tk.err # Nil THEN [err |-> tk.err, v |-> slice, d |-> tk.d]
    ELSE After(tk.d, decodeSliceLoop(tk.d, T, MakeSlice, tk.tokens, 1))

\* A decodeSlice that would leave the slice as it was when a token fails.
AllOrNothing(slice, r) == IF r.err # Nil THEN [err |-> r.err, v |-> slice] ELSE r

decodeSliceTokens_atomic(T, slice, tk) ==
    IF tk.err # Nil THEN [err |-> tk.err, v |-> slice, d |-> tk.d]
    ELSE After(tk.d, AllOrNothing(slice, decodeSliceLoop(tk.d, T, slice, tk.tokens, 1)))

\* decodeSlice once Tokens has returned tk.
decodeSliceTokens(T, slice, tk) ==
    IF tk.err # Nil THEN [err |-> tk.err, v |-> slice, d |-> tk.d]
    ELSE After(tk.d, decodeSliceLoop(tk.d, T, slice, tk.tokens, 1))

\* A decodeSlice that would check the element type after reading the line.
decodeSlice_lateCheck(d, T, slice) ==
    IF ~isDecodableValue(Elem(T))
    THEN [err |-> [e |-> "decoding to this slice type not supported", type |-> T],
          v |-> slice, d |-> Tokens(d).d]
    ELSE decodeSliceTokens(T, slice, Tokens(d))

\* A decodeSlice that would leave a slice it cannot decode into alone and report
\* success.
decodeSlice_tolerant(d, T, slice) ==
    IF ~isDecodableValue(Elem(T)) THEN [err |-> Nil, v |-> slice, d |-> d]
    ELSE decodeSliceTokens(T, slice, Tokens(d))

\* (*Decoder).decodeSlice
decodeSlice(d, T, slice) ==
    IF ~isDecodableValue(Elem(T))
    THEN [err |-> [e |-> "decoding to this slice type not supported", type |-> T],
          v |-> slice, d |-> d]
    ELSE decodeSliceTokens(T, slice, Tokens(d))

\* A decodeSingleToken that would decode the first token of several.
decodeSingleTokenTokens_first(T, v, tk) ==
    IF tk.err # Nil THEN [err |-> tk.err, v |-> v, d |-> tk.d]
    ELSE IF Len(tk.tokens) < 1
    THEN [err |-> [e |-> "expected 1 token", type |-> T, found |-> Len(tk.tokens)],
          v |-> v, d |-> tk.d]
    ELSE After(tk.d, decodeToValue(tk.d, T, T, v, tk.tokens[1]))

\* A decodeSingleToken that would put back a line whose count of tokens is not
\* one.
decodeSingleTokenTokens_unread(T, v, tk) ==
    IF tk.err # Nil THEN [err |-> tk.err, v |-> v, d |-> tk.d]
    ELSE IF Len(tk.tokens) # 1
    THEN [err |-> [e |-> "expected 1 token", type |-> T, found |-> Len(tk.tokens)],
          v |-> v, d |-> [tk.d EXCEPT !.pos = @ - 1]]
    ELSE After(tk.d, decodeToValue(tk.d, T, T, v, tk.tokens[1]))

\* decodeSingleToken once Tokens has returned tk.
decodeSingleTokenTokens(T, v, tk) ==
    IF tk.err # Nil THEN [err |-> tk.err, v |-> v, d |-> tk.d]
    ELSE IF Len(tk.tokens) # 1
    THEN [err |-> [e |-> "expected 1 token", type |-> T, found |-> Len(tk.tokens)],
          v |-> v, d |-> tk.d]
    ELSE After(tk.d, decodeToValue(tk.d, T, T, v, tk.tokens[1]))

\* (*Decoder).decodeSingleToken
decodeSingleToken(d, T, v) == decodeSingleTokenTokens(T, v, Tokens(d))

\* decodeLine once readline has returned ln.
decodeLineRead(T, v, ln) ==
    IF ln.err # Nil THEN [err |-> ln.err, v |-> v, d |-> ln.d]
    ELSE After(ln.d, decodeToValue(ln.d, T, T, v, ln.s))

\* A decodeLine that would tokenize the line like any scalar destination.
decodeLine_tokenized(d, T, v) == decodeSingleToken(d, T, v)

\* (*Decoder).decodeLine
decodeLine(d, T, v) == decodeLineRead(T, v, readline(d))

\* A pointer case of decode that would decode into a value the pointer does not
\* point to, and leave the pointer nil.
PointedTo_lost(r) == [err |-> r.err, v |-> <<>>, d |-> r.d]

\* A pointer case of decode that would set the pointer only when the recursive
\* call has succeeded.
PointedTo_lazy(r) ==
    [err |-> r.err, v |-> IF r.err = Nil THEN << r.v >> ELSE <<>>, d |-> r.d]

\* The end of the pointer case of decode: the pointer, instantiated if it was
\* nil, points to what the recursive call left.
PointedTo(r) == [err |-> r.err, v |-> << r.v >>, d |-> r.d]

RECURSIVE decode(_, _, _)
\* A decode that would follow a pointer before it looks for the special types
\* and the text unmarshalers.
decode_pointerFirst(d, T, v) ==
    IF Kind(T) = "Ptr"
    THEN PointedTo(decode(d, Elem(T), maybeInstantiatePtr(T, v)[1]))
    ELSE IF \/ T = durationType
            \/ T = timeType
            \/ isTextUnmarshaler(T)
            \/ Kind(T) \in {"Bool", "Int8", "Int16", "Uint8", "Uint16", "Float64"}
    THEN decodeSingleToken(d, T, v)
    ELSE IF Kind(T) = "String" THEN decodeLine(d, T, v)
    ELSE IF Kind(T) = "Struct" THEN decodeStruct(d, T, v)
    ELSE IF Kind(T) = "Slice" THEN decodeSlice(d, T, v)
    ELSE [err |-> [e |-> "cannot decode into type", type |-> T], v |-> v, d |-> d]

\* (*Decoder).decode
decode(d, T, v) ==
    IF \/ T = durationType
       \/ T \in {timeType, timePtrType}
       \/ isTextUnmarshaler(T)
       \/ Kind(T) \in {"Bool", "Int8", "Int16", "Uint8", "Uint16", "Float64"}
    THEN decodeSingleToken(d, T, v)
    ELSE IF Kind(T) = "String" THEN decodeLine(d, T, v)
    ELSE IF Kind(T) = "Struct" THEN decodeStruct(d, T, v)
    ELSE IF Kind(T) = "Slice" THEN decodeSlice(d, T, v)
    ELSE IF Kind(T) = "Ptr"
    THEN PointedTo(decode(d, Elem(T), maybeInstantiatePtr(T, v)[1]))
    ELSE [err |-> [e |-> "cannot decode into type", type |-> T], v |-> v, d |-> d]

----------------------------------------------------------------------------
(* strum.go: decoding all lines. *)

\* The loop of decodeAll; decodeAllElem is its body once a line has been decoded
\* into a new element (r).
RECURSIVE decodeAllLoop(_, _, _)
RECURSIVE decodeAllElem(_, _, _)
\* A loop of decodeAll that would put each new element in front.
decodeAllElem_prepend(T, slice, r) ==
    IF r.err # Nil
    THEN IF r.err = EOF THEN [err |-> Nil, v |-> slice, d |-> r.d]
         ELSE [err |-> r.err, v |-> slice, d |-> r.d]
    ELSE decodeAllLoop(r.d, T, [nil |-> FALSE, elems |-> <<r.v>> \o slice.elems])

\* A loop of decodeAll that would discard the elements when a line fails.
decodeAllElem_rollback(T, slice, r) ==
    IF r.err # Nil
    THEN IF r.err = EOF THEN [err |-> Nil, v |-> slice, d |-> r.d]
         ELSE [err |-> r.err, v |-> MakeSlice, d |-> r.d]
    ELSE decodeAllLoop(r.d, T, AppendSlice(slice, r.v))

\* A loop of decodeAll that would decode each line into the element decoded
\* before it instead of a new one.
decodeAllLoop_reuse(d, T, slice) ==
    decodeAllElem(T, slice,
                  decode(d, Elem(T), IF slice.elems = <<>> THEN Zero(Elem(T))
                                     ELSE slice.elems[Len(slice.elems)]))

decodeAllLoop(d, T, slice) == decodeAllElem(T, slice, decode(d, Elem(T), Zero(Elem(T))))

decodeAllElem(T, slice, r) ==
    IF r.err # Nil
    THEN IF r.err = EOF THEN [err |-> Nil, v |-> slice, d |-> r.d]
         ELSE [err |-> r.err, v |-> slice, d |-> r.d]
    ELSE decodeAllLoop(r.d, T, AppendSlice(slice, r.v))

\* (*Decoder).decodeAll
decodeAll(d, T, slice) ==
    decodeAllLoop(d, T, IF slice.nil THEN MakeSlice ELSE slice)

----------------------------------------------------------------------------
(* strum.go: the arguments of the entry points.                               *)
(* An argument is "nil" (the nil interface), "value" (the caller's variable   *)
(* itself), "nilptr" (a nil pointer to the variable's type) or "&dest" (the    *)
(* address of the caller's variable).                                          *)

Args == {"nil", "value", "nilptr", "&dest"}

\* extractDestValue(v): [err, T, v, via]; via says where the value decoded into
\* lives: "&dest" the caller's variable, "*dest" what the variable points to.
extractDestValue(arg, T, v) ==
    IF arg = "nil"
    THEN [err |-> [e |-> "argument must be a non-nil pointer"]]
    ELSE IF arg = "value" /\ Kind(T) # "Ptr"
    THEN [err |-> [e |-> "argument must be a pointer, not", kind |-> Kind(T)]]
    ELSE IF arg = "nilptr" \/ (arg = "value" /\ IsNilPtr(v))
    THEN [err |-> [e |-> "argument must be a non-nil pointer"]]
    ELSE IF arg = "value"
    THEN [err |-> Nil, T |-> Elem(T), v |-> v[1], via |-> "*dest"]
    ELSE [err |-> Nil, T |-> T, v |-> v, via |-> "&dest"]

\* An extractDestSlice that would leave a pointer to a non-slice to be found
\* unsupported later.
extractDestSliceOf_lateKind(x) ==
    IF x.err # Nil THEN x
    ELSE IF Kind(x.T) # "Slice"
    THEN [err |-> [e |-> "cannot decode into type", type |-> x.T]]
    ELSE x

\* extractDestSlice once extractDestValue has returned x.
extractDestSliceOf(x) ==
    IF x.err # Nil THEN x
    ELSE IF Kind(x.T) # "Slice"
    THEN [err |-> [e |-> "argument must be a pointer to slice, not", kind |-> Kind(x.T)]]
    ELSE x

\* extractDestSlice(v)
extractDestSlice(arg, T, v) == extractDestSliceOf(extractDestValue(arg, T, v))

\* What the caller's variable holds once a value nv has been stored through via.
Stored(via, nv) == IF via = "*dest" THEN << nv >> ELSE nv

----------------------------------------------------------------------------
(* The state machine: one decoder over one input source, and one variable of  *)
(* the caller that every call is given.                                        *)

\* The types the caller's variable may have.
ScalarDests == {"bool", "int8", "string", "*string", "time.Duration", "time.Time",
                "*time.Time", "*big.Rat", "complex128"}
StructDests == {"pair", "*pair", "partPrivate", "unsupported", "sxWithBoolHandle",
                "*bool", "**bool", "*complex128"}
SliceDests  == {"[]int8", "[]string", "[]pair", "[][]int8", "[]*bool", "[]complex128"}
DestTypes   == ScalarDests \cup StructDests \cup SliceDests

\* The decoder as the state holds it.
D == [lines |-> lines, srcErr |-> srcErr, pos |-> pos, t |-> t, dp |-> dp]

InitOf(dests) ==
    /\ lines \in Inputs
    /\ srcErr \in BOOLEAN
    /\ Len(lines) + (IF srcErr THEN 1 ELSE 0) <= MaxLines
    /\ pos = 0
    /\ t = DefaultTokenizer
    /\ dp = "dateparse.ParseAny"
    /\ destType \in dests
    /\ dest = Zero(destType)
    /\ last = [op |-> "NewDecoder"]

Init == InitOf(DestTypes)

\* The tokens a line to decode into a scalar type of the model holds.
BoolTokens ==
    {s_empty, s_true, s_True, s_TRUE, s_tRuE, s_false, s_FALSE, s_1, s_0, s_t, s_yes}
IntTokens ==
    {s_empty, s_0, s_7, s_m1, s_p5, s_127, s_128, s_m128, s_m129, s_255, s_256,
     s_32767, s_32768, s_m32768, s_m32769, s_65535, s_65536,
     s_0x7f, s_0x80, s_m0x80, s_m0x81, s_017, s_0b11, s_0o17,
     s_m, s_7x, s_256x, s_65536x, s_08, s_0x, s_1d5, s_true}
FloatTokens ==
    {s_empty, s_0, s_7, s_m1, s_p5, s_256, s_NaN, s_pInf, s_mInf, s_Inf, s_7x, s_true}
StringTokens == {s_empty, s_true, s_7_8_x}

ScalarTokenDests == {"bool", "string", "int8", "int16", "uint8", "uint16", "float64"}

TokensOf(T) ==
    CASE T = "bool" -> BoolTokens
      [] T = "string" -> StringTokens
      [] T = "float64" -> FloatTokens
      [] OTHER -> IntTokens

\* The decoder over one line holding a token of the type of the caller's
\* variable, or, for a bool, over such a line after the line "true".
InitTokens ==
    /\ destType \in ScalarTokenDests
    /\ lines \in {<<s>> : s \in TokensOf(destType)}
                  \cup {<<s_true, s>> : s \in (IF destType = "bool" THEN BoolTokens ELSE {})}
    /\ srcErr = FALSE
    /\ pos = 0
    /\ t = DefaultTokenizer
    /\ dp = "dateparse.ParseAny"
    /\ dest = Zero(destType)
    /\ last = [op |-> "NewDecoder"]

\* The texts a source holds for a scalar type of the caller's variable: the
\* decimal texts of integers of the type, the texts of booleans and of floats,
\* and for a string texts with spaces, a line feed or a carriage return.
Int16Sources == {-32768, -32767, -129, -128, -1, 0, 1, 127, 128, 32766, 32767}
Uint16Sources == {0, 1, 255, 256, 65534, 65535}
FloatSources == {s_0, s_7, s_m1, s_256, s_NaN, s_pInf, s_mInf}
StringSources ==
    {s_empty, s_true, s_7_8_x, <<" ", "7">>, <<"7", " ">>, <<"7", CR>>, <<"7", LF, "8">>}

SourcesOf(T) ==
    CASE T = "bool" -> {s_true, s_false}
      [] T = "string" -> StringSources
      [] T = "int8" -> {Decimal(n) : n \in -128..127}
      [] T = "uint8" -> {Decimal(n) : n \in 0..255}
      [] T = "int16" -> {Decimal(n) : n \in Int16Sources}
      [] T = "uint16" -> {Decimal(n) : n \in Uint16Sources}
      [] T = "float64" -> FloatSources

\* The decoder NewDecoder returns over a source that holds such a text, with a
\* line feed at its end or without.
InitSource ==
    /\ destType \in ScalarTokenDests
    /\ \E text \in SourcesOf(destType), end \in {<<>>, <<LF>>} :
          lines = ScanLines(text \o end)
    /\ srcErr = FALSE
    /\ pos = 0
    /\ t = DefaultTokenizer
    /\ dp = "dateparse.ParseAny"
    /\ dest = Zero(destType)
    /\ last = [op |-> "NewDecoder"]

\* The lines a source holds for the separators of Seps: without a separator,
\* with one, and with separators at the start, at the end and side by side.
SplitLines ==
    {s_empty, s_7, <<"x">>, <<"x", "x", "x">>, <<"7", "x", "8">>,
     <<"x", "7", "x", "x", "8", "x">>}

\* The decoder over one or two such lines, the caller's variable a string, a
\* struct of two fields or a slice of strings.
InitSplit ==
    /\ destType \in {"string", "pair", "[]string"}
    /\ lines \in {<<s>> : s \in SplitLines} \cup {<<s_7, s>> : s \in SplitLines}
    /\ srcErr = FALSE
    /\ pos = 0
    /\ t = DefaultTokenizer
    /\ dp = "dateparse.ParseAny"
    /\ dest = Zero(destType)
    /\ last = [op |-> "NewDecoder"]

\* d.WithDateParser(dp)
WithDateParser(parser) ==
    /\ dp' = parser
    /\ last' = [op |-> "WithDateParser"]
    /\ UNCHANGED <<lines, srcErr, pos, t, destType, dest>>

\* d.WithTokenizer(t)
WithTokenizer(tk) ==
    /\ t' = tk
    /\ last' = [op |-> "WithTokenizer"]
    /\ UNCHANGED <<lines, srcErr, pos, dp, destType, dest>>

\* d.WithTokenRegexp(re)
WithTokenRegexp(re) ==
    /\ t' = [kind |-> "Regexp", re |-> re]
    /\ last' = [op |-> "WithTokenRegexp"]
    /\ UNCHANGED <<lines, srcErr, pos, dp, destType, dest>>

\* A WithSplitOn that would replace only the tokenizer of NewDecoder.
WithSplitOn_onlyDefault(sep) ==
    /\ t' = IF t = DefaultTokenizer THEN [kind |-> "SplitOn", sep |-> sep] ELSE t
    /\ last' = [op |-> "WithSplitOn"]
    /\ UNCHANGED <<lines, srcErr, pos, dp, destType, dest>>

\* d.WithSplitOn(sep)
WithSplitOn(sep) ==
    /\ t' = [kind |-> "SplitOn", sep |-> sep]
    /\ last' = [op |-> "WithSplitOn"]
    /\ UNCHANGED <<lines, srcErr, pos, dp, destType, dest>>

\* What a call leaves in last.
Called(op, arg, err) ==
    [op |-> op, arg |-> arg, err |-> err, tokens |-> <<>>, data |-> <<>>,
     pos0 |-> pos, dest0 |-> dest]

\* d.Tokens()
CallTokens ==
    LET r == Tokens(D)
    IN  /\ pos' = r.d.pos
        /\ last' = [Called("Tokens", "", r.err) EXCEPT !.tokens = r.tokens]
        /\ UNCHANGED <<lines, srcErr, t, dp, destType, dest>>

\* An entry point op refuses its argument with err.
Refuses(op, arg, err) ==
    /\ last' = Called(op, arg, WrapErr(op, err))
    /\ UNCHANGED <<lines, srcErr, pos, t, dp, destType, dest>>

\* An entry point op returns, decode or decodeAll having returned r.
Returns(op, arg, via, r) ==
    /\ pos' = r.d.pos
    /\ dest' = Stored(via, r.v)
    /\ last' = Called(op, arg, r.err)
    /\ UNCHANGED <<lines, srcErr, t, dp, destType>>

\* d.Decode(v)
Decode(arg) ==
    LET x == extractDestValue(arg, destType, dest)
    IN  IF x.err # Nil THEN Refuses("Decode", arg, x.err)
        ELSE Returns("Decode", arg, x.via, decode(D, x.T, x.v))

\* d.DecodeAll(v)
DecodeAll(arg) ==
    LET x == extractDestSlice(arg, destType, dest)
    IN  IF x.err # Nil THEN Refuses("DecodeAll", arg, x.err)
        ELSE Returns("DecodeAll", arg, x.via, decodeAll(D, x.T, x.v))

\* The data Unmarshal may be given, as the lines they hold.
Datas == {<<>>, <<s_7, s_true>>}

\* Unmarshal returns, decodeAll having returned r: the decoder of the state is
\* not the one it read from.
UnmarshalReturns(data, arg, via, r) ==
    /\ dest' = Stored(via, r.v)
    /\ last' = [Called("Unmarshal", arg, r.err) EXCEPT !.data = data]
    /\ UNCHANGED <<lines, srcErr, pos, t, dp, destType>>

\* Unmarshal(data, v), as long as the slice would not grow beyond MaxElems.
Unmarshal(data, arg) ==
    LET x == extractDestSlice(arg, destType, dest)
    IN  IF x.err # Nil THEN Refuses("Unmarshal", arg, x.err)
        ELSE /\ Len(x.v.elems) + Len(data) <= MaxElems
             /\ UnmarshalReturns(data, arg, x.via, decodeAll(NewDecoder(data, FALSE), x.T, x.v))

Next ==
    \/ \E parser \in DateParsers : WithDateParser(parser)
    \/ \E fn \in CustomTokenizers : WithTokenizer([kind |-> "Custom", fn |-> fn])
    \/ \E re \in Regexps : WithTokenRegexp(re)
    \/ \E sep \in Seps : WithSplitOn(sep)
    \/ CallTokens
    \/ \E arg \in Args : Decode(arg)
    \/ \E arg \in Args : DecodeAll(arg)
    \/ \E data \in Datas, arg \in Args : Unmarshal(data, arg)

\* Every type of destination.
Spec == Init /\ [][Next]_vars

\* The caller's variable is a scalar, a string, a special type or unsupported.
SpecScalar == InitOf(ScalarDests) /\ [][Next]_vars

\* The caller's variable is a struct or a pointer.
SpecStruct == InitOf(StructDests) /\ [][Next]_vars

\* The caller's variable is a slice.
SpecSlice == InitOf(SliceDests) /\ [][Next]_vars

\* The decoder with a slice whose elements are decoded by strconv, by the date
\* parser or by UnmarshalText.
ParsedSliceDests == {"[]int8", "[]time.Time", "[]*big.Rat"}
SpecParsed == InitOf(ParsedSliceDests) /\ [][Next]_vars

\* The caller's variable is a scalar and the lines hold tokens of its type.
SpecTokens == InitTokens /\ [][Next]_vars

\* The caller's variable is a scalar and the source holds the text of a value
\* of its type.
SpecSource == InitSource /\ [][Next]_vars

\* The lines hold the separators WithSplitOn is given.
SpecSplit == InitSplit /\ [][Next]_vars

----------------------------------------------------------------------------
(* The vocabulary of the properties.  They are stated on the state a call     *)
(* leaves: last holds the call, its argument, the error it returned, and the   *)
(* cursor and the caller's variable as they were when the call began.          *)

Min(a, b) == IF a <= b THEN a ELSE b

\* A call of the entry point op has just returned, and its argument passed the
\* validation of extractDestValue: it was a non-nil pointer.
Accepted(op) ==
    /\ last.op = op
    /\ \/ last.arg = "&dest"
       \/ last.arg = "value" /\ Kind(destType) = "Ptr" /\ last.dest0 # <<>>

\* The type of what the argument pointed to, its value when the call began, and
\* its value now.
TargetType == IF last.arg = "&dest" THEN destType ELSE Elem(destType)
Target0 == IF last.arg = "&dest" THEN last.dest0 ELSE last.dest0[1]
Target == IF last.arg = "&dest" THEN dest ELSE dest[1]

\* The decoder as it was when the call began.
D0 == [D EXCEPT !.pos = last.pos0]

\* The lines that remained when the call began; the first of them, and the
\* outcome of the active tokenizer on it.
Remaining == Drop(lines, last.pos0)
Line0 == lines[last.pos0 + 1]
Toks0 == Tokenize(t, Line0)

\* The outcome of decoding the line s, alone, into a new zero value of type T
\* under the decoder's present options.
LineInto(s, T) ==
    decode([lines |-> <<s>>, srcErr |-> FALSE, pos |-> 0, t |-> t, dp |-> dp], T, Zero(T))

\* The element types decodeSlice has no rule for.
UnsupportedElem(T) ==
    /\ T \notin {durationType, timeType, timePtrType} \cup TextUnmarshalers
    /\ Kind(T) \in {"Struct", "Slice", "Ptr", "Complex128", "Map"}

\* The destination types Decode has a rule for: a scalar, a string, a special
\* type, a struct, a slice of supported elements, or a pointer to one of these.
RECURSIVE Supported(_)
Supported(T) ==
    IF T \in {durationType, timeType, timePtrType} \cup TextUnmarshalers THEN TRUE
    ELSE IF Kind(T) \in {"Bool", "String", "Int8", "Int16", "Uint8", "Uint16", "Float64", "Struct"}
    THEN TRUE
    ELSE IF Kind(T) = "Slice" THEN ~UnsupportedElem(Elem(T))
    ELSE IF Kind(T) = "Ptr" THEN Supported(Elem(T))
    ELSE FALSE

\* The types decoded from exactly one token.
SingleTokenTypes ==
    {T \in Types : \/ T \in {durationType, timeType, timePtrType} \cup TextUnmarshalers
                   \/ Kind(T) \in {"Bool", "Int8", "Int16", "Uint8", "Uint16", "Float64"}}

\* The struct types decoded field by field.
Aggregate(T) ==
    /\ Kind(T) = "Struct"
    /\ T \notin {durationType, timeType, timePtrType} \cup TextUnmarshalers

----------------------------------------------------------------------------
(* DecodeAll *)

\* The element type of the slice DecodeAll was given.
ElemType == Elem(TargetType)

\* DecodeAll has just returned, its argument having passed the validation of
\* extractDestSlice: a non-nil pointer to a slice.
AcceptedAll == Accepted("DecodeAll") /\ Kind(TargetType) = "Slice"

\* Each of the first n lines that remained decodes, alone, into the element type.
Decodes(n) == \A i \in 1..n : LineInto(Remaining[i], ElemType).err = Nil

\* The elements the first n lines that remained decode to, in line order.
Decoded(n) == [i \in 1..n |-> LineInto(Remaining[i], ElemType).v]

\* C1: DecodeAll, called when n lines remain before the clean end of the input,
\* each of which decodes into the (supported) element type, returns nil and
\* leaves in the slice the elements it held followed by the n decoded elements
\* in line order; the slice is allocated even when it was nil and n = 0, and
\* every line is consumed.  No call of DecodeAll returns io.EOF.
C1_DecodeAllAppendsEveryLine ==
    /\ last.op = "DecodeAll" => last.err # EOF
    /\ (AcceptedAll /\ ~srcErr /\ Supported(ElemType) /\ Decodes(Len(Remaining)))
        => /\ last.err = Nil
           /\ ~Target.nil
           /\ Target.elems = Target0.elems \o Decoded(Len(Remaining))
           /\ pos = Len(lines)

\* C1's case: two lines decoding to different elements were appended in order.
C1_Witness ==
    /\ AcceptedAll /\ ~srcErr /\ Supported(ElemType)
    /\ Len(Remaining) = 2 /\ Decodes(2)
    /\ Decoded(2)[1] # Decoded(2)[2]
    /\ last.err = Nil
    /\ Len(Target.elems) = 2

\* C2: when the k-th remaining line is the first whose decoding fails, with an
\* error other than io.EOF, DecodeAll returns that error, the slice holds what
\* it held followed by the k-1 elements of the lines before, and no line after
\* the k-th has been read.
C2_DecodeAllStopsAtFirstFailure ==
    AcceptedAll =>
        \A k \in 1..Len(Remaining) :
            (Decodes(k - 1) /\ LineInto(Remaining[k], ElemType).err \notin {Nil, EOF})
            => /\ last.err = LineInto(Remaining[k], ElemType).err
               /\ Target.elems = Target0.elems \o Decoded(k - 1)
               /\ pos <= last.pos0 + k
               /\ pos >= last.pos0 + k - 1

\* C2's case: the second remaining line failed after the first was appended.
C2_Witness ==
    /\ AcceptedAll
    /\ Len(Remaining) = 2 /\ Decodes(1)
    /\ LineInto(Remaining[2], ElemType).err \notin {Nil, EOF}
    /\ last.err # Nil
    /\ Len(Target.elems) = 1

----------------------------------------------------------------------------
(* Decode at the end of the input *)

\* No line remained when the call began, and the source ended without failure.
Exhausted == last.pos0 = Len(lines) /\ ~srcErr

\* C3, as amended: when no line remains, Decode with a non-nil pointer to a
\* destination of a supported type returns io.EOF itself, reads nothing and
\* decodes nothing (a nil pointer it was to decode through may have been set).
C3_DecodeAtEndReturnsEOF ==
    (Accepted("Decode") /\ Exhausted /\ Supported(TargetType))
        => /\ last.err = EOF
           /\ pos = last.pos0
           /\ Kind(TargetType) # "Ptr" => Target = Target0

\* C3's case: such a call with a struct, a slice or a pointer destination.
C3_Witness ==
    /\ Accepted("Decode") /\ Exhausted /\ Supported(TargetType)
    /\ Kind(TargetType) \in {"Struct", "Slice", "Ptr"}
    /\ last.pos0 > 0
    /\ last.err = EOF

\* C3, as stated: when no line remains, Decode with any non-nil pointer returns
\* io.EOF, whatever the type of the destination.
C3_AsStated ==
    (Accepted("Decode") /\ Exhausted) => last.err = EOF

----------------------------------------------------------------------------
(* Decode of one line *)

\* Decode has just returned, its argument having passed validation, and a line
\* remained when it began.
DecodedLine == Accepted("Decode") /\ last.pos0 < Len(lines)

\* C4: Decode into a single-token destination, the tokenizer having produced
\* the tokens of the line, succeeds only if there is exactly one token; for any
\* other count it returns the error naming the destination type and the count,
\* and the destination is left as it was.  The line is consumed.
C4_SingleTokenArity ==
    (DecodedLine /\ TargetType \in SingleTokenTypes /\ Toks0.err = Nil)
        => /\ last.err = Nil => Len(Toks0.tokens) = 1
           /\ Len(Toks0.tokens) # 1
                => /\ last.err = [e |-> "expected 1 token", type |-> TargetType,
                                  found |-> Len(Toks0.tokens)]
                   /\ Target = Target0
           /\ pos = last.pos0 + 1

\* C4's case: a line of several tokens, the first of which alone would decode.
C4_Witness ==
    /\ DecodedLine /\ TargetType = "int8" /\ Toks0.err = Nil
    /\ Len(Toks0.tokens) > 1
    /\ Toks0.tokens[1] = s_7
    /\ last.err # Nil

\* The string a string destination, or the pointer to a string, holds.
StringOf(T, v) == IF T = "string" THEN v ELSE v[1]

\* C5: Decode into a string destination, directly or through a pointer, stores
\* the whole line and returns nil whatever the line and the active tokenizer.
C5_StringTakesWholeLine ==
    (DecodedLine /\ TargetType \in {"string", "*string"})
        => /\ last.err = Nil
           /\ StringOf(TargetType, Target) = Line0
           /\ pos = last.pos0 + 1

\* C5's case: a line the active regexp does not match, decoded through a pointer.
C5_Witness ==
    /\ DecodedLine /\ TargetType = "*string"
    /\ t.kind = "Regexp" /\ Toks0.err # Nil
    /\ Line0 # <<>>
    /\ last.err = Nil

----------------------------------------------------------------------------
(* Decode into a struct *)

\* Decode has just returned from a line the tokenizer split, the destination
\* being a struct decoded field by field.
DecodedStruct == DecodedLine /\ Aggregate(TargetType) /\ Toks0.err = Nil

\* The outcome of decoding token i of the line into a new zero value of the
\* type of field i.
Slot(i) ==
    decodeToValue(D0, <<TargetType, Field(TargetType, i).Name>>, Field(TargetType, i).Type,
                  Zero(Field(TargetType, i).Type), Toks0.tokens[i])

\* Field i is exported and token i decodes into its type.
SlotDecodes(i) == Field(TargetType, i).PkgPath = "" /\ Slot(i).err = Nil

\* C6: Decode of a line of k tokens into a struct of n fields, each token that
\* has a field decoding into that field's type: if k <= n the call returns nil,
\* field i holds the decoding of token i for i <= k and its zero value for
\* i > k; if k > n the call returns the error naming the struct type.
C6_StructArity ==
    (/\ DecodedStruct
     /\ \A i \in 1..Min(Len(Toks0.tokens), NumField(TargetType)) : SlotDecodes(i))
        => IF Len(Toks0.tokens) <= NumField(TargetType)
           THEN /\ last.err = Nil
                /\ \A i \in 1..NumField(TargetType) :
                      Target[i] = IF i <= Len(Toks0.tokens) THEN Slot(i).v
                                  ELSE Zero(Field(TargetType, i).Type)
           ELSE last.err = [e |-> "too many tokens for struct", type |-> TargetType]

\* C6's case: one token for a struct of two fields.
C6_Witness ==
    /\ DecodedStruct
    /\ Len(Toks0.tokens) = 1 /\ NumField(TargetType) = 2 /\ SlotDecodes(1)
    /\ Toks0.tokens[1] # <<>>
    /\ last.err = Nil

\* C7: after a successful Decode into a struct, the struct is what the same
\* line decodes to in a new zero struct, whatever the struct held before, and
\* the fields beyond the tokens hold their zero value.
C7_StructResetBeforeFill ==
    (DecodedStruct /\ last.err = Nil)
        => /\ Target = decode(D0, TargetType, Zero(TargetType)).v
           /\ \A i \in 1..NumField(TargetType) :
                 i > Len(Toks0.tokens) => Target[i] = Zero(Field(TargetType, i).Type)

\* C7's case: a field that held a value of an earlier line got no token.
C7_Witness ==
    /\ DecodedStruct /\ last.err = Nil
    /\ \E i \in 1..NumField(TargetType) :
          /\ i > Len(Toks0.tokens)
          /\ Target0[i] # Zero(Field(TargetType, i).Type)

----------------------------------------------------------------------------
(* Decode into a slice *)

\* Decode has just returned, the destination being a slice.
DecodedSlice == Accepted("Decode") /\ Kind(TargetType) = "Slice"

\* The outcome of decoding token i of the line into a new element.
Element(i) ==
    decodeToValue(D0, <<"element", i - 1>>, Elem(TargetType), Zero(Elem(TargetType)),
                  Toks0.tokens[i])

\* C8: a successful Decode of a line of k tokens into a slice of m elements
\* leaves the m elements as they were, followed by the decodings of the k tokens
\* in token order; a line of no token decodes successfully and appends nothing.
C8_SliceAppends ==
    /\ (DecodedSlice /\ last.err = Nil)
        => /\ last.pos0 < Len(lines) /\ Toks0.err = Nil
           /\ Len(Target.elems) = Len(Target0.elems) + Len(Toks0.tokens)
           /\ Target.elems =
                Target0.elems \o [i \in 1..Len(Toks0.tokens) |-> Element(i).v]
    /\ (/\ DecodedSlice /\ ~UnsupportedElem(Elem(TargetType))
        /\ last.pos0 < Len(lines) /\ Toks0.err = Nil /\ Toks0.tokens = <<>>)
        => last.err = Nil /\ Target = Target0

\* C8's case: tokens appended to the elements of an earlier line.
C8_Witness ==
    /\ DecodedSlice /\ last.err = Nil
    /\ Len(Target0.elems) > 0
    /\ Len(Toks0.tokens) > 0
    /\ Len(Target.elems) > Len(Target0.elems)

\* C9: Decode into a slice whose element type decodeSlice has no rule for
\* returns the error naming the slice type without reading: the cursor and the
\* slice are as they were.
C9_SliceElementCheckedFirst ==
    (DecodedSlice /\ UnsupportedElem(Elem(TargetType)))
        => /\ last.err = [e |-> "decoding to this slice type not supported",
                          type |-> TargetType]
           /\ pos = last.pos0
           /\ Target = Target0

\* C9's case: a slice of structs, a line remaining.
C9_Witness ==
    /\ DecodedSlice /\ Kind(Elem(TargetType)) = "Struct"
    /\ last.pos0 < Len(lines)
    /\ last.err # Nil
    /\ pos = last.pos0

----------------------------------------------------------------------------
(* The regexp tokenizer *)

\* Tokens has just returned from a line, the tokenizer being that of
\* WithTokenRegexp.
RegexpTokens == last.op = "Tokens" /\ last.pos0 < Len(lines) /\ t.kind = "Regexp"

\* The match of the active regexp on the line.
Match0 == FindStringSubmatch(t.re, Line0)

\* C10, as amended: with the tokenizer of a regexp of at least one capture
\* group, a line the regexp matches yields the capture groups, in order and
\* without the full match, as many tokens as groups; a line it does not match
\* yields the error of the failed match.  With a regexp of no capture group a
\* line it matches yields an error.
C10_RegexpTokens ==
    RegexpTokens =>
        /\ (~Match0.nil /\ NumSubexp(t.re) >= 1)
            => /\ last.err = Nil
               /\ Len(last.tokens) = NumSubexp(t.re)
               /\ \A i \in 1..NumSubexp(t.re) : last.tokens[i] = Match0.xs[i + 1]
        /\ Match0.nil
            => /\ last.err = [e |-> "regexp failed to match line", s |-> Line0]
               /\ last.tokens = <<>>
        /\ (~Match0.nil /\ NumSubexp(t.re) = 0) => last.err # Nil
        /\ pos = last.pos0 + 1

\* C10's case: a line matched by a regexp of two capture groups.
C10_Witness ==
    /\ RegexpTokens /\ ~Match0.nil /\ NumSubexp(t.re) = 2
    /\ last.tokens = << s_7, <<"8">> >>

\* C10, as stated: every line the regexp matches yields its capture groups, as
\* many tokens as groups.
C10_AsStated ==
    (RegexpTokens /\ ~Match0.nil)
        => /\ last.err = Nil
           /\ Len(last.tokens) = NumSubexp(t.re)

\* C11, as amended: with the tokenizer of a regexp of no capture group every
\* line yields an error and no token: the error of the missing subexpressions
\* for a line the regexp matches, the error of the failed match for a line it
\* does not match.
C11_NoGroupRegexpFails ==
    (RegexpTokens /\ NumSubexp(t.re) = 0)
        => /\ last.tokens = <<>>
           /\ ~Match0.nil => last.err = [e |-> "regexp has no subexpressions"]
           /\ Match0.nil => last.err = [e |-> "regexp failed to match line", s |-> Line0]
           /\ pos = last.pos0 + 1

\* C11's case: a regexp of no capture group that does not match every line, on
\* a line it matches.
C11_Witness ==
    /\ RegexpTokens /\ t.re = re_digits /\ ~Match0.nil
    /\ last.err = [e |-> "regexp has no subexpressions"]

\* C11, as stated: with a regexp of no capture group every line yields the
\* error of the missing subexpressions, whether or not the regexp matches it.
C11_AsStated ==
    (RegexpTokens /\ NumSubexp(t.re) = 0)
        => last.err = [e |-> "regexp has no subexpressions"]

----------------------------------------------------------------------------
(* Scalar tokens *)

\* Decode has just returned from a line of exactly one token, the destination
\* being of type T.
OneToken(T) ==
    /\ DecodedLine /\ TargetType = T
    /\ Toks0.err = Nil /\ Len(Toks0.tokens) = 1

\* The token.
Tok0 == Toks0.tokens[1]

\* The texts of the model equal to "true", and to "false", but for letter case.
TrueTexts == {s_true, s_True, s_TRUE, s_tRuE}
FalseTexts == {s_false, s_FALSE}

\* C12: decoding a token into a bool stores true for "true" in any letter case,
\* false for "false" in any letter case, and for every other token returns the
\* error that holds the token and leaves the bool as it was.
C12_BoolTokens ==
    OneToken("bool") =>
        /\ Tok0 \in TrueTexts => last.err = Nil /\ Target = TRUE
        /\ Tok0 \in FalseTexts => last.err = Nil /\ Target = FALSE
        /\ Tok0 \notin TrueTexts \cup FalseTexts
            => /\ last.err = decodingError("bool", [e |-> "error decoding as boolean",
                                                    s |-> Tok0])
               /\ Target = Target0

\* C12's case: the empty token, decoded into a bool that held true.
C12_Witness ==
    /\ OneToken("bool") /\ Tok0 = s_empty
    /\ Target0 = TRUE /\ Target = TRUE
    /\ last.err # Nil

\* The well-formed integer literals among the tokens, each with its value: a
\* decimal, or with the prefix 0x a hexadecimal, 0b a binary, 0o or 0 an octal
\* number, with an optional sign.
IntLiterals ==
    {<<s_0, 0>>, <<s_7, 7>>, <<s_m1, -1>>, <<s_p5, 5>>, <<s_127, 127>>, <<s_128, 128>>,
     <<s_m128, -128>>, <<s_m129, -129>>, <<s_255, 255>>, <<s_256, 256>>,
     <<s_32767, 32767>>, <<s_32768, 32768>>, <<s_m32768, -32768>>, <<s_m32769, -32769>>,
     <<s_65535, 65535>>, <<s_65536, 65536>>,
     <<s_0x7f, 127>>, <<s_0x80, 128>>, <<s_m0x80, -128>>, <<s_m0x81, -129>>,
     <<s_017, 15>>, <<s_0b11, 3>>, <<s_0o17, 15>>}

\* The tokens that are no integer literal, each with the value of the digits
\* that come before its first character out of place.
Malformed ==
    {<<s_empty, 0>>, <<s_m, 0>>, <<s_7x, 7>>, <<s_256x, 256>>, <<s_65536x, 65536>>,
     <<s_08, 0>>, <<s_0x, 0>>, <<s_1d5, 1>>, <<s_true, 0>>}

\* The signed and the unsigned integer types of the model, and the bit width
\* of each.
SignedTypes == {"int8", "int16"}
UnsignedTypes == {"uint8", "uint16"}
Width(T) == IF T \in {"int8", "uint8"} THEN 8 ELSE 16

\* The error a failed conversion of the token by fn returns for destination T.
ConvError(T, fn, why) == decodingError(T, NumError(fn, Tok0, why))

\* A literal of value v decoded into the signed type T: stored when in range,
\* the range error and no change otherwise.
SignedLiteral(T, v) ==
    IF 0 - Pow2(Width(T) - 1) <= v /\ v <= Pow2(Width(T) - 1) - 1
    THEN last.err = Nil /\ Target = v
    ELSE last.err = ConvError(T, "ParseInt", ErrRange) /\ Target = Target0

\* C13, as amended: into a signed integer of width w a well-formed literal is
\* decoded iff its value lies in [-2^(w-1), 2^(w-1)-1], and then stored as it
\* is; outside the range it fails with the range error and nothing is stored;
\* a malformed token fails with the syntax error, unless the digits before its
\* first character out of place already exceed 2^w - 1: then with the range
\* error.
C13_SignedTokens ==
    \A T \in SignedTypes :
        OneToken(T) =>
            /\ \A lit \in IntLiterals : Tok0 = lit[1] => SignedLiteral(T, lit[2])
            /\ \A bad \in Malformed :
                  Tok0 = bad[1] =>
                      /\ last.err = ConvError(T, "ParseInt",
                                        IF bad[2] > Pow2(Width(T)) - 1 THEN ErrRange
                                        ELSE ErrSyntax)
                      /\ Target = Target0

\* C13's case: the least value of 16 bits, stored.
C13_Witness ==
    /\ OneToken("int16") /\ Tok0 = s_m32768
    /\ last.err = Nil
    /\ Target = -32768

\* C13, as stated: the same for the literals, and every malformed token fails
\* with the syntax error.
C13_AsStated ==
    \A T \in SignedTypes :
        OneToken(T) =>
            /\ \A lit \in IntLiterals : Tok0 = lit[1] => SignedLiteral(T, lit[2])
            /\ \A bad \in Malformed :
                  Tok0 = bad[1] => last.err = ConvError(T, "ParseInt", ErrSyntax)

\* The token begins with a sign.
Signed0 == Tok0 # <<>> /\ Tok0[1] \in {"+", "-"}

\* The token is an unsigned literal of a value in the range of width w.
UnsignedInRange(w) ==
    /\ ~Signed0
    /\ \E lit \in IntLiterals : Tok0 = lit[1] /\ 0 <= lit[2] /\ lit[2] <= Pow2(w) - 1

\* C14: into an unsigned integer of width w a token is decoded iff it is an
\* unsigned literal of a value in [0, 2^w-1], and that value is stored; an
\* unsigned literal above 2^w-1 fails with the range error; every token that
\* begins with a minus sign fails with the syntax error; nothing is stored when
\* the call fails.
C14_UnsignedTokens ==
    \A T \in UnsignedTypes :
        OneToken(T) =>
            /\ last.err = Nil <=> UnsignedInRange(Width(T))
            /\ \A lit \in IntLiterals :
                  (Tok0 = lit[1] /\ last.err = Nil) => Target = lit[2]
            /\ \A lit \in IntLiterals :
                  (Tok0 = lit[1] /\ ~Signed0 /\ lit[2] > Pow2(Width(T)) - 1)
                      => last.err = ConvError(T, "ParseUint", ErrRange)
            /\ (Tok0 # <<>> /\ Tok0[1] = "-")
                  => last.err = ConvError(T, "ParseUint", ErrSyntax)
            /\ last.err # Nil => Target = Target0

\* C14's case: "-1" decoded into an unsigned integer of 8 bits.
C14_Witness ==
    /\ OneToken("uint8") /\ Tok0 = s_m1
    /\ last.err = ConvError("uint8", "ParseUint", ErrSyntax)
    /\ Target = 0

----------------------------------------------------------------------------
(* Pointers *)

\* T is a pointer type decoded through what it points to.
Indirection(T) ==
    Kind(T) = "Ptr" /\ T \notin {timePtrType} \cup TextUnmarshalers

\* The type at the end of the pointers of T.
RECURSIVE BaseType(_)
BaseType(T) == IF Indirection(T) THEN BaseType(Elem(T)) ELSE T

\* Every pointer on the way from the value v of type T to its base is set.
RECURSIVE AllSet(_, _)
AllSet(T, v) == Indirection(T) => (v # <<>> /\ AllSet(Elem(T), v[1]))

\* The value at the end of the pointers of v, all of them set.
RECURSIVE Innermost(_, _)
Innermost(T, v) == IF Indirection(T) THEN Innermost(Elem(T), v[1]) ELSE v

\* The outcome of decoding token i of the line into a new zero value of the
\* base type of field i.
BaseSlot(i) ==
    decodeToValue(D0, <<TargetType, Field(TargetType, i).Name>>,
                  BaseType(Field(TargetType, i).Type),
                  Zero(BaseType(Field(TargetType, i).Type)), Toks0.tokens[i])

\* C15: Decode into a nil pointer of any depth, the line decoding into the type
\* at the end of the pointers (a scalar or a struct), sets every pointer on the
\* way and leaves at the end what the line decodes to; a field of a struct
\* that is a pointer of any depth is set in the same way from its token.
C15_NilPointersAllocated ==
    /\ (/\ DecodedLine /\ Indirection(TargetType) /\ Target0 = <<>>
        /\ LineInto(Line0, BaseType(TargetType)).err = Nil)
        => /\ last.err = Nil
           /\ AllSet(TargetType, Target)
           /\ Innermost(TargetType, Target) = LineInto(Line0, BaseType(TargetType)).v
    /\ DecodedStruct
        => \A i \in 1..Min(Len(Toks0.tokens), NumField(TargetType)) :
              (/\ Indirection(Field(TargetType, i).Type)
               /\ \A j \in 1..i : Field(TargetType, j).PkgPath = ""
               /\ \A j \in 1..i : BaseSlot(j).err = Nil)
              => /\ AllSet(Field(TargetType, i).Type, Target[i])
                 /\ Innermost(Field(TargetType, i).Type, Target[i]) = BaseSlot(i).v

\* C15's case: a nil pointer to a pointer to a bool, the line "true".
C15_Witness ==
    /\ DecodedLine /\ TargetType = "**bool" /\ Target0 = <<>>
    /\ last.err = Nil
    /\ Target = << <<TRUE>> >>

----------------------------------------------------------------------------
(* The order of the rules of decode *)

\* The rule of a destination type: the first that applies, in the order of decode.
Rule(T) ==
    IF T = durationType THEN "duration"
    ELSE IF T \in {timeType, timePtrType} THEN "timestamp"
    ELSE IF isTextUnmarshaler(T) THEN "capability"
    ELSE CASE Kind(T) = "Bool" -> "bool"
           [] Kind(T) = "String" -> "string"
           [] Kind(T) \in {"Int8", "Int16"} -> "signed"
           [] Kind(T) \in {"Uint8", "Uint16"} -> "unsigned"
           [] Kind(T) = "Float64" -> "float"
           [] Kind(T) = "Struct" -> "aggregate"
           [] Kind(T) = "Slice" -> "sequence"
           [] Kind(T) = "Ptr" -> "indirection"
           [] OTHER -> "unsupported"

\* The rules that decode exactly one token.
SingleTokenRules ==
    {"duration", "timestamp", "capability", "bool", "signed", "unsigned", "float"}

\* What a pointer that was v points to once it has been instantiated.
Pointee(T, v) == IF v = <<>> THEN Zero(Elem(T)) ELSE v[1]

\* The conversion the rule of T applies to the token s, the destination holding
\* v: [err, v], err the conversion's own error and v the destination's value
\* when it succeeds.
Conv(T, v, s) ==
    CASE Rule(T) = "duration" -> ParseDuration(s)
      [] Rule(T) = "timestamp" ->
            IF T = timeType THEN DateParse(dp, s) ELSE Pointed(DateParse(dp, s))
      [] Rule(T) = "capability" -> Pointed(UnmarshalText(Pointee(T, v), s))
      [] Rule(T) = "bool" -> ParseBool(s)
      [] Rule(T) = "signed" -> ParseInt(s, Bits(T))
      [] Rule(T) = "unsigned" -> ParseUint(s, Bits(T))
      [] Rule(T) = "float" -> ParseFloat(s, Bits(T))

\* C16: decode chooses the rule of a destination by its type in the order
\* duration, timestamp, text unmarshaler, then kind (bool, string, signed,
\* unsigned, float, struct, slice, pointer), and rejects any other type.  A
\* destination of the first three rules and of the scalar kinds takes exactly
\* one token and holds what its rule's conversion makes of it; so a text
\* unmarshaler of pointer kind is decoded by UnmarshalText and not as a pointer,
\* and a time.Time or a *time.Time by the decoder's date parser and never by
\* UnmarshalText.  A string takes the line, a struct and a slice take any
\* number of tokens, a pointer is set and followed.
C16_DispatchOrder ==
    /\ (DecodedLine /\ Rule(TargetType) \in SingleTokenRules /\ Toks0.err = Nil)
        => IF Len(Toks0.tokens) = 1
           THEN /\ last.err = (IF Conv(TargetType, Target0, Tok0).err = Nil THEN Nil
                               ELSE decodingError(TargetType,
                                                  Conv(TargetType, Target0, Tok0).err))
                /\ last.err = Nil => Target = Conv(TargetType, Target0, Tok0).v
           ELSE last.err = [e |-> "expected 1 token", type |-> TargetType,
                            found |-> Len(Toks0.tokens)]
    /\ (DecodedLine /\ Rule(TargetType) = "string")
        => last.err = Nil /\ Target = Line0
    /\ (DecodedLine /\ Rule(TargetType) = "aggregate" /\ Toks0.err = Nil
        /\ Len(Toks0.tokens) = 0)
        => last.err = Nil /\ Target = Zero(TargetType)
    /\ (DecodedLine /\ Rule(TargetType) = "sequence" /\ Toks0.err = Nil
        /\ Len(Toks0.tokens) = 0 /\ isDecodableValue(Elem(TargetType)))
        => last.err = Nil /\ Target.elems = Target0.elems
    /\ (DecodedLine /\ Rule(TargetType) = "indirection")
        => /\ Target # <<>>
           /\ (last.err = Nil) = (LineInto(Line0, Elem(TargetType)).err = Nil)
    /\ (Accepted("Decode") /\ Rule(TargetType) = "unsupported")
        => /\ last.err = [e |-> "cannot decode into type", type |-> TargetType]
           /\ pos = last.pos0

\* C16's case: the line "7" decoded into a nil *big.Rat, which holds 7/1, and
\* not the error of a struct with unexported fields.
C16_Witness ==
    /\ OneToken("*big.Rat") /\ Tok0 = s_7 /\ Target0 = <<>>
    /\ last.err = Nil
    /\ Target = << <<7, 1>> >>

----------------------------------------------------------------------------
(* The arguments the entry points refuse *)

\* An entry point has just returned.
EntryCalled == last.op \in {"Decode", "DecodeAll", "Unmarshal"}

\* The argument was the nil interface, or a nil pointer.
NilArgument ==
    \/ last.arg \in {"nil", "nilptr"}
    \/ last.arg = "value" /\ Kind(destType) = "Ptr" /\ last.dest0 = <<>>

\* The argument was a value that is not a pointer.
NotAPointer == last.arg = "value" /\ Kind(destType) # "Ptr"

\* The argument was a non-nil pointer to a value that is not a slice, and the
\* entry point is one that appends to a slice.
NotToASlice ==
    /\ last.op \in {"DecodeAll", "Unmarshal"}
    /\ ~NilArgument /\ ~NotAPointer
    /\ Kind(TargetType) # "Slice"

\* The call returned err, wrapped with the entry point's name, and left the
\* cursor and the caller's variable as they were.
Refused(err) ==
    /\ last.err = WrapErr(last.op, err)
    /\ pos = last.pos0
    /\ dest = last.dest0

\* C17: Decode, DecodeAll and Unmarshal return "argument must be a non-nil
\* pointer" for the nil interface and for a nil pointer and "argument must be a
\* pointer, not <kind>" for a value that is not a pointer; DecodeAll and
\* Unmarshal return "argument must be a pointer to slice, not <kind>" for a
\* non-nil pointer to anything but a slice.  Each of these calls leaves the
\* cursor and the caller's variable as they were.
C17_BadArgumentsRefused ==
    EntryCalled
        => /\ NilArgument => Refused([e |-> "argument must be a non-nil pointer"])
           /\ NotAPointer
                => Refused([e |-> "argument must be a pointer, not", kind |-> Kind(destType)])
           /\ NotToASlice
                => Refused([e |-> "argument must be a pointer to slice, not",
                            kind |-> Kind(TargetType)])

\* C17's case: DecodeAll is given a pointer to a struct while a line remains,
\* a struct the line would decode into.
C17_Witness ==
    /\ last.op = "DecodeAll" /\ last.arg = "&dest" /\ destType = "pair"
    /\ last.pos0 < Len(lines)
    /\ LineInto(Line0, "pair").err = Nil
    /\ Refused([e |-> "argument must be a pointer to slice, not", kind |-> "Struct"])

----------------------------------------------------------------------------
(* Unexported fields *)

\* The struct type has an unexported field; the index of the first.
HasUnexported(T) == \E i \in 1..NumField(T) : Field(T, i).PkgPath # ""
FirstUnexported(T) ==
    CHOOSE i \in 1..NumField(T) :
        Field(T, i).PkgPath # "" /\ \A j \in 1..(i - 1) : Field(T, j).PkgPath = ""

\* The error decodeStruct returns for field i.
UnexportedError(T, i) ==
    [e |-> "cannot decode to unexported field", field |-> <<T, Field(T, i).Name>>]

\* C18, as amended: Decode of a line into a struct whose first unexported field
\* is field k returns "cannot decode to unexported field" exactly when the line
\* has at least k tokens (the tokens before the k-th decoding into their
\* fields); a line of fewer than k tokens whose tokens decode is decoded into
\* the fields before the k-th and the call returns nil.
C18_UnexportedFieldReached ==
    (/\ DecodedStruct /\ HasUnexported(TargetType)
     /\ \A i \in 1..Min(Len(Toks0.tokens), FirstUnexported(TargetType) - 1) : SlotDecodes(i))
        => IF Len(Toks0.tokens) >= FirstUnexported(TargetType)
           THEN last.err = UnexportedError(TargetType, FirstUnexported(TargetType))
           ELSE /\ last.err = Nil
                /\ \A i \in 1..Len(Toks0.tokens) : Target[i] = Slot(i).v

\* C18's case: a line of one token decoded into partPrivate, whose second field
\* is unexported, and the call returns nil.
C18_Witness ==
    /\ DecodedStruct /\ TargetType = "partPrivate"
    /\ Len(Toks0.tokens) = 1
    /\ last.err = Nil
    /\ Target[1] = Toks0.tokens[1]

\* C18, as stated: Decode of any line into a struct that has an unexported
\* field returns "cannot decode to unexported field", whatever the number of
\* tokens of the line.
C18_AsStated ==
    (DecodedStruct /\ HasUnexported(TargetType))
        => last.err = UnexportedError(TargetType, FirstUnexported(TargetType))

----------------------------------------------------------------------------
(* Format, then parse *)

\* The values of a scalar type whose texts the sources hold.
Values(T) ==
    CASE T = "bool" -> BOOLEAN
      [] T = "string" -> StringSources
      [] T = "int8" -> -128..127
      [] T = "uint8" -> 0..255
      [] T = "int16" -> Int16Sources
      [] T = "uint16" -> Uint16Sources
      [] T = "float64" -> {Finite(0), Finite(7), Finite(-1), Finite(256), NaN, Inf(1), Inf(-1)}
      [] OTHER -> {}

\* The standard text of a value: fmt's %v.
Format(T, v) ==
    CASE T = "bool" -> (IF v THEN s_true ELSE s_false)
      [] T = "string" -> v
      [] T = "float64" ->
            (CASE v.f = "finite" -> Decimal(v.n)
               [] v.f = "NaN" -> s_NaN
               [] v.f = "+Inf" -> s_pInf
               [] v.f = "-Inf" -> s_mInf)
      [] OTHER -> Decimal(v)

\* Go's == on two values of the type T: a NaN equals nothing.
IsNaN(T, v) == T = "float64" /\ v.f = "NaN"
GoEqual(T, a, b) == ~IsNaN(T, a) /\ a = b

\* Decode has just returned: the first call that reads, under the default
\* tokenizer, into the caller's variable.
FirstDecode ==
    /\ last.op = "Decode" /\ last.arg = "&dest"
    /\ last.pos0 = 0
    /\ t = DefaultTokenizer

----------------------------------------------------------------------------
(* WithSplitOn *)

\* The number of occurrences of sep in s, counted from the left without
\* overlap.
RECURSIVE Count(_, _)
Count(s, sep) ==
    IF Len(s) < Len(sep) THEN 0
    ELSE IF Take(s, Len(sep)) = sep THEN 1 + Count(Drop(s, Len(sep)), sep)
    ELSE Count(Tail(s), sep)

\* The texts of toks with sep between each two.
RECURSIVE Join(_, _)
Join(toks, sep) ==
    IF toks = <<>> THEN <<>>
    ELSE IF Len(toks) = 1 THEN toks[1]
    ELSE toks[1] \o sep \o Join(Tail(toks), sep)

\* Tokens has just returned, having read a line under the tokenizer of
\* WithSplitOn with a separator that is not empty.
SplitLine ==
    /\ last.op = "Tokens"
    /\ last.pos0 < Len(lines)
    /\ t.kind = "SplitOn" /\ t.sep # <<>>

\* C20: under WithSplitOn(sep), sep not empty, Tokens on a line that holds c
\* occurrences of sep, counted without overlap, returns nil and c + 1 tokens,
\* the empty ones among them (one token, empty, for an empty line); the tokens
\* joined by sep are the line.
C20_SplitOnTokens ==
    SplitLine
        => /\ last.err = Nil
           /\ Len(last.tokens) = Count(Line0, t.sep) + 1
           /\ Join(last.tokens, t.sep) = Line0
           /\ Line0 = <<>> => last.tokens = << <<>> >>

\* C20's case: a line with a separator at its start, two side by side and one
\* at its end.
C20_Witness ==
    /\ SplitLine /\ t.sep = <<"x">>
    /\ Line0 = <<"x", "7", "x", "x", "8", "x">>
    /\ last.tokens = << <<>>, <<"7">>, <<>>, <<"8">>, <<>> >>

----------------------------------------------------------------------------
(* The options of the decoder *)

\* The kind of tokenizer each option sets.
KindSet(op) ==
    CASE op = "WithTokenizer" -> "Custom"
      [] op = "WithSplitOn" -> "SplitOn"
      [] op = "WithTokenRegexp" -> "Regexp"

\* The active tokenizer is the one the last option set, and a line Tokens reads
\* is tokenized by the active tokenizer alone.
LatestTokenizer ==
    /\ last.op \in {"WithTokenizer", "WithSplitOn", "WithTokenRegexp"}
        => t.kind = KindSet(last.op)
    /\ (last.op = "Tokens" /\ last.pos0 < Len(lines))
        => /\ last.tokens = Tokenize(t, Line0).tokens
           /\ last.err = Tokenize(t, Line0).err

\* A step that sets an option leaves the source, the cursor, the caller's
\* variable and the other option as they were.
OptionFrame ==
    /\ last'.op \in {"WithTokenizer", "WithSplitOn", "WithTokenRegexp"}
        => UNCHANGED <<lines, srcErr, pos, dp, destType, dest>>
    /\ last'.op = "WithDateParser"
        => UNCHANGED <<lines, srcErr, pos, t, destType, dest>>

\* C21: WithTokenizer, WithSplitOn and WithTokenRegexp replace the active
\* tokenizer, whatever it was, and each line read afterwards is tokenized by
\* the tokenizer set last; setting a tokenizer or a date parser reads no line
\* and leaves the cursor and the other of the two functions as they were.
C21_OptionsReplace == [](LatestTokenizer) /\ [][OptionFrame]_vars

\* C21's case: the second line is read by Tokens under WithSplitOn, set after
\* the first line had been read, and is cut at the separator, not at the space.
C21_Witness ==
    /\ last.op = "Tokens" /\ last.pos0 = 1 /\ Len(lines) = 2
    /\ t = [kind |-> "SplitOn", sep |-> <<"x">>]
    /\ Line0 = s_7_8_x
    /\ last.tokens = << <<"7", " ", "8", " ">>, <<>> >>

----------------------------------------------------------------------------
(* When a nil pointer is set *)

\* Decode has just returned, having been given the address of a nil pointer.
DecodedNilPointer ==
    /\ Accepted("Decode")
    /\ Kind(TargetType) = "Ptr"
    /\ Target0 = <<>>

\* The call ended before any token was parsed: at the end of the input, on a
\* failure of the tokenizer, on a count of tokens that is not one, or on a type
\* decode has no rule for.
NoTokenParsed ==
    \/ last.err = EOF
    \/ last.pos0 < Len(lines) /\ Toks0.err # Nil /\ last.err = Toks0.err
    \/ last.err.e = "expected 1 token"
    \/ last.err.e = "cannot decode into type"

\* The zero value at the end of nil pointers of type T, each of them set.
RECURSIVE SetToZero(_)
SetToZero(T) == IF Indirection(T) THEN << SetToZero(Elem(T)) >> ELSE Zero(T)

----------------------------------------------------------------------------
(* The element check of decodeSlice and decodeToValue *)

\* Decode has just returned, having been given the address of a slice.
DecodedIntoSlice == Accepted("Decode") /\ Kind(TargetType) = "Slice"

\* decodeSlice refused the element type before it read a line.
ElementRefused ==
    /\ last.err = [e |-> "decoding to this slice type not supported", type |-> TargetType]
    /\ pos = last.pos0

\* What decodeToValue makes of the token s for a new element of type T.
ElementOf(T, s) == decodeToValue(D0, "element 0", T, Zero(T), s)

\* decodeToValue has no rule for the type T: it fails with the unsupported-type
\* error whatever the token.
NoRuleFor(T) ==
    /\ ElementOf(T, s_true).err # Nil
    /\ ElementOf(T, s_true).err.cause.e = "unsupported type"

\* C23, as stated: decodeSlice refuses an element type exactly when
\* decodeToValue has no rule for it; so a slice of pointers to bool, whose
\* element decodeToValue decodes, is not refused.
C23_AsStated ==
    DecodedIntoSlice => (ElementRefused <=> NoRuleFor(Elem(TargetType)))

\* C23's case: Decode of the line "true" into a []*bool is refused, while
\* decodeToValue decodes the token into a *bool.
C23_Witness ==
    /\ DecodedIntoSlice /\ TargetType = "[]*bool"
    /\ last.pos0 < Len(lines) /\ Line0 = s_true
    /\ ElementRefused
    /\ ElementOf("*bool", s_true) = [err |-> Nil, v |-> << TRUE >>]

----------------------------------------------------------------------------
(* DecodeAll and Unmarshal as Decode, line after line *)

\* Decode called with the address of a new variable of type E until it fails,
\* each decoded value appended to acc: [err, elems, d], err nil when the
\* failure is io.EOF.
RECURSIVE DecodeEach(_, _, _)
DecodeEach(d, E, acc) ==
    LET r == decode(d, E, Zero(E))
    IN  IF r.err = EOF THEN [err |-> Nil, elems |-> acc, d |-> r.d]
        ELSE IF r.err # Nil THEN [err |-> r.err, elems |-> acc, d |-> r.d]
        ELSE DecodeEach(r.d, E, Append(acc, r.v))

\* Unmarshal has just returned, its argument having been a non-nil pointer to a
\* slice.
AcceptedUnmarshal ==
    /\ last.op = "Unmarshal" /\ last.arg = "&dest"
    /\ Kind(destType) = "Slice"

\* C24: DecodeAll leaves the slice, returns the error and leaves the cursor as
\* Decode does when it is called line after line with a new variable of the
\* element type, its values appended, until it fails (io.EOF read as nil);
\* Unmarshal does the same with a new decoder over its data.  So DecodeAll
\* appends to a slice of strings one whole line per element, and Decode one
\* element per token of one line.
C24_DecodeAllAsDecodeEach ==
    /\ AcceptedAll
        => /\ Target.elems = Target0.elems \o DecodeEach(D0, ElemType, <<>>).elems
           /\ last.err = DecodeEach(D0, ElemType, <<>>).err
           /\ pos = DecodeEach(D0, ElemType, <<>>).d.pos
    /\ AcceptedUnmarshal
        => /\ dest.elems = last.dest0.elems
                    \o DecodeEach(NewDecoder(last.data, FALSE), Elem(destType), <<>>).elems
           /\ last.err = DecodeEach(NewDecoder(last.data, FALSE), Elem(destType), <<>>).err
           /\ pos = last.pos0
    /\ (AcceptedAll /\ TargetType = "[]string" /\ ~srcErr)
        => Target.elems = Target0.elems \o Remaining
    /\ (DecodedIntoSlice /\ TargetType = "[]string" /\ last.pos0 < Len(lines)
        /\ Toks0.err = Nil)
        => Target.elems = Target0.elems \o Toks0.tokens

\* C24's case: DecodeAll into a slice of strings over two lines, the first of
\* three tokens: the slice holds the two lines, unsplit.
C24_Witness ==
    /\ AcceptedAll /\ TargetType = "[]string"
    /\ last.pos0 = 0 /\ Len(lines) = 2 /\ ~srcErr
    /\ lines[1] = s_7_8_x
    /\ last.err = Nil
    /\ Target.elems = lines

----------------------------------------------------------------------------
(* The cursor *)

\* decode returns for the type T before it reads a line: T is, or is a pointer
\* to, a type it has no rule for or a slice of elements decodeSlice refuses.
RECURSIVE ReadsNoLine(_)
ReadsNoLine(T) ==
    IF Indirection(T) THEN ReadsNoLine(Elem(T))
    ELSE \/ Rule(T) = "unsupported"
         \/ Rule(T) = "sequence" /\ UnsupportedElem(Elem(T))

\* The call that has just returned was not to read a line: Decode refused its
\* argument or the type of its destination, or no line remained (the input had
\* ended or the source had failed).
NoLineToRead ==
    \/ last.op = "Decode" /\ ~Accepted("Decode")
    \/ Accepted("Decode") /\ ReadsNoLine(TargetType)
    \/ last.pos0 = Len(lines)

\* C25: a call of Decode or Tokens moves the cursor by one line or leaves it.
\* It moves it by one line whenever a line remained and the call came to read
\* it, whether the call then failed or not; it leaves it exactly when Decode
\* refused its argument, the type of the destination or the element type of
\* the slice, or when no line remained.
C25_CursorAdvance ==
    last.op \in {"Decode", "Tokens"}
        => /\ pos \in {last.pos0, last.pos0 + 1}
           /\ (pos = last.pos0) <=> NoLineToRead

\* C25's case: Decode of a line of three tokens into a struct of two fields
\* fails and the line is consumed.
C25_Witness ==
    /\ Accepted("Decode") /\ TargetType = "pair"
    /\ last.pos0 < Len(lines)
    /\ last.err = [e |-> "too many tokens for struct", type |-> "pair"]
    /\ pos = last.pos0 + 1

----------------------------------------------------------------------------
(* The end of the input *)

\* The source has ended: no line remains and no read has failed.
AtEnd == pos = Len(lines) /\ ~srcErr

\* Tokens has just returned, or Decode with a destination of a supported type.
CallReturned ==
    \/ last.op = "Tokens"
    \/ Accepted("Decode") /\ Supported(TargetType)

\* The call that has just returned io.EOF.
EOFReturned == CallReturned /\ last.err = EOF

\* The call has left the caller's variable as it was, but for a nil pointer
\* Decode was to follow.
DestinationKept ==
    IF last.op = "Tokens" THEN dest = last.dest0
    ELSE Kind(TargetType) # "Ptr" => Target = Target0

\* io.EOF is returned when the source has ended, and otherwise only when the
\* tokenizer itself has returned it for the line read.
EOFFromEndOrTokenizer ==
    EOFReturned
        => \/ AtEnd /\ last.pos0 = pos
           \/ last.pos0 < Len(lines) /\ Toks0.err = EOF

\* A step from a state where the source has ended: the source has still ended,
\* and a call of Tokens or of Decode with a supported destination returns
\* io.EOF, yields no token and leaves the destination as it was.
EndStep ==
    AtEnd
        => /\ AtEnd'
           /\ CallReturned'
                => /\ last'.err = EOF
                   /\ last'.tokens = <<>>
                   /\ DestinationKept'

\* C26, as amended: once the source has ended, which is when a call returns
\* io.EOF that no tokenizer has returned, it has ended for good: every later
\* call of Tokens, and of Decode with a destination of a supported type, returns
\* io.EOF whatever the tokenizer (which is not called), and a scalar, struct or
\* slice destination is left as it was.
C26_EndIsAbsorbing == [](EOFFromEndOrTokenizer) /\ [][EndStep]_vars

\* C26's case: Decode into a slice that holds elements, when the source has
\* ended and the tokenizer is one that fails on every line.
C26_Witness ==
    /\ Accepted("Decode") /\ TargetType = "[]string"
    /\ AtEnd /\ last.pos0 = pos /\ pos > 0
    /\ t.kind \in {"Custom", "Regexp"}
    /\ Target0.elems # <<>>
    /\ last.err = EOF
    /\ Target = Target0

\* C26, as stated: a call of Tokens, or of Decode with a supported destination,
\* that follows a call that returned io.EOF returns io.EOF.
C26_AsStated == [][(EOFReturned /\ CallReturned') => last'.err = EOF]_vars

----------------------------------------------------------------------------
(* A token of a slice that fails *)

\* Token k of the line (counted from 1) is the first that does not decode into
\* an element.
FirstFailing(k) ==
    /\ Element(k).err # Nil
    /\ \A j \in 1..(k - 1) : Element(j).err = Nil

\* C27: when token k of the line (counted from 1) is the first that does not
\* decode into the element type, Decode into a slice returns that token's error
\* under the name "element k-1", and the slice holds what it held followed by
\* the k-1 elements decoded from the tokens before it, and nothing of the
\* tokens after it.
C27_SliceKeepsDecodedPrefix ==
    (/\ DecodedSlice /\ ~UnsupportedElem(Elem(TargetType))
     /\ last.pos0 < Len(lines) /\ Toks0.err = Nil)
        => \A k \in 1..Len(Toks0.tokens) :
              FirstFailing(k)
                => /\ last.err = Element(k).err
                   /\ last.err.name = <<"element", k - 1>>
                   /\ Target.elems = Target0.elems \o [i \in 1..(k - 1) |-> Element(i).v]

\* C27's case: the line "7 8 x" decoded into a slice of int8 that holds an
\* element; the third token fails and the slice has grown by two.
C27_Witness ==
    /\ DecodedSlice /\ TargetType = "[]int8"
    /\ last.pos0 < Len(lines) /\ Toks0.tokens = << <<"7">>, <<"8">>, <<"x">> >>
    /\ Target0.elems = <<7>>
    /\ last.err # Nil /\ last.err.name = <<"element", 2>>
    /\ Target.elems = <<7, 7, 8>>

----------------------------------------------------------------------------
(* A struct whose decoding fails *)

\* Decode has just returned, its destination being a struct decoded field by
\* field.
DecodedIntoStruct == Accepted("Decode") /\ Aggregate(TargetType)

\* Token i of the line has no field, or an unexported one, or does not decode
\* into the type of field i.
SlotFails(i) ==
    \/ i > NumField(TargetType)
    \/ Field(TargetType, i).PkgPath # ""
    \/ Slot(i).err # Nil

\* Token f is the first the struct cannot take.
FirstFailingSlot(f) == SlotFails(f) /\ \A j \in 1..(f - 1) : ~SlotFails(j)

\* The error of the struct's decoding when token f is the first it cannot take.
SlotError(f) ==
    IF f > NumField(TargetType)
    THEN [e |-> "too many tokens for struct", type |-> TargetType]
    ELSE IF Field(TargetType, f).PkgPath # "" THEN UnexportedError(TargetType, f)
    ELSE Slot(f).err

\* What field i holds after the struct's decoding stopped at token f: the
\* decoding of token i before f, what the failed decoding left in a field that
\* was decoded into at f, and its zero value otherwise.
SlotAfter(f, i) ==
    IF i < f \/ (i = f /\ Field(TargetType, i).PkgPath = "") THEN Slot(i).v
    ELSE Zero(Field(TargetType, i).Type)

\* C28: Decode into a struct that ends with io.EOF, a read error or an error of
\* the tokenizer leaves every field as it was. When the line was split and token
\* f is the first the struct cannot take (it does not decode, its field is
\* unexported or of an unsupported type, or there is no field left), the call
\* returns that failure, the fields before f hold the decodings of their tokens
\* and the fields after f their zero values, whatever the struct held; with more
\* tokens than fields every field has been filled.
C28_StructResetAfterTokens ==
    DecodedIntoStruct
        => IF last.pos0 = Len(lines) THEN Target = Target0 /\ last.err \in {EOF, ReadErr}
           ELSE IF Toks0.err # Nil THEN Target = Target0 /\ last.err = Toks0.err
           ELSE \A f \in 1..Len(Toks0.tokens) :
                   FirstFailingSlot(f)
                     => /\ last.err = SlotError(f)
                        /\ \A i \in 1..NumField(TargetType) : Target[i] = SlotAfter(f, i)

\* C28's case: a pair that holds the fields of an earlier line is given the
\* three tokens of "7 8 x"; both fields are overwritten before the third token
\* is refused.
C28_Witness ==
    /\ DecodedIntoStruct /\ TargetType = "pair"
    /\ last.pos0 < Len(lines) /\ Toks0.tokens = << <<"7">>, <<"8">>, <<"x">> >>
    /\ Target0 = << <<"t", "r", "u", "e">>, 0 >>
    /\ last.err = [e |-> "too many tokens for struct", type |-> "pair"]
    /\ Target = << <<"7">>, 8 >>

----------------------------------------------------------------------------
(* DecodeAll comes to an end *)

\* The lines the call has consumed, and the elements it has appended.
Consumed == pos - last.pos0
Appended == Len(Target.elems) - Len(Target0.elems)

\* C29: a decoding of one value consumes one line when it succeeds and at most
\* one when it fails. DecodeAll leaves its loop by a decoding that fails, each
\* decoding before it having appended an element and consumed a line: with n
\* lines remaining it appends at most n elements, which is at most n+1
\* decodings, and consumes as many lines as it appended, or one more.
C29_DecodeAllTerminates ==
    /\ Accepted("Decode")
          => /\ Consumed \in {0, 1}
             /\ last.err = Nil => Consumed = 1
    /\ AcceptedAll
          => /\ Appended \in 0..Len(Remaining)
             /\ Consumed \in {Appended, Appended + 1}
             /\ Consumed <= Len(Remaining)

\* C29's case: DecodeAll with two lines remaining has made three decodings, two
\* that appended an element and the one that met the end of the input.
C29_Witness ==
    /\ AcceptedAll /\ Len(Remaining) = 2 /\ ~srcErr
    /\ Appended = 2 /\ Consumed = 2
    /\ last.err = Nil

----------------------------------------------------------------------------
(* DecodeAll returns nil *)

\* DecodeAll has returned nil.
ReturnedNil == AcceptedAll /\ last.err = Nil

\* Every line that remained has been consumed and has given one element.
AllConsumed ==
    /\ pos = Len(lines)
    /\ Appended = Len(Remaining)
    /\ Decodes(Len(Remaining))
    /\ Target.elems = Target0.elems \o Decoded(Len(Remaining))

\* The tokenizer returned io.EOF itself for the line consumed last, which gave
\* no element.
TokenizerSaidEOF ==
    /\ pos > last.pos0
    /\ Tokenize(t, lines[pos]).err = EOF
    /\ LineInto(lines[pos], ElemType).err = EOF
    /\ Appended = Consumed - 1

\* Line i of those that remained is the first that does not decode, and fails
\* with an error other than io.EOF itself.
FirstFailure(i) ==
    /\ Decodes(i - 1)
    /\ LineInto(Remaining[i], ElemType).err \notin {Nil, EOF}

\* C30: DecodeAll returns nil only when every line that remained has been
\* consumed and has given one element, or when the tokenizer returned io.EOF
\* itself for the line consumed last. An error of the date parser or of
\* UnmarshalText, io.EOF included, is returned wrapped with the destination's
\* name, and so is the failure DecodeAll returns.
C30_NilAtEndOrTokenizerEOF ==
    /\ ReturnedNil => AllConsumed \/ TokenizerSaidEOF
    /\ AcceptedAll
          => \A i \in 1..Len(Remaining) :
                FirstFailure(i)
                  => /\ last.err = LineInto(Remaining[i], ElemType).err
                     /\ Appended = i - 1

\* C30's case: the date parser fails with io.EOF on the first of two lines of a
\* DecodeAll into a slice of time.Time; the call fails with that error, wrapped,
\* and the second line is not read.
C30_Witness ==
    /\ AcceptedAll /\ TargetType = "[]time.Time" /\ dp = "failEOF"
    /\ last.pos0 = 0 /\ Len(lines) = 2 /\ Toks0.err = Nil /\ Len(Toks0.tokens) = 1
    /\ last.err = decodingError("time.Time", EOF)
    /\ pos = 1 /\ Appended = 0

\* C30, as stated: DecodeAll returns nil only when every line that remained has
\* been consumed and has given one element.
C30_AsStated == ReturnedNil => AllConsumed

====
